---- MODULE Spec2Model ----
(***************************************************************************)
(* Model of the LGDL per-turn runtime.                                     *)
(*                                                                         *)
(* Spec     : StateManager + TTLCache + SQLite storage, driven by          *)
(*            concurrent LGDLRuntime.process_turn tasks (asyncio).         *)
(* SpecNeg  : NegotiationLoop.clarify_until_confident.                     *)
(* SpecDlg  : LGDLRuntime.process_turn on one conversation, turn after     *)
(*            turn: routing, negotiation, slot filling, block execution.   *)
(*                                                                         *)
(* asyncio is cooperative: one action is the code a task runs between two  *)
(* real suspension points (storage I/O, matcher/LLM I/O, a contended       *)
(* asyncio.Lock, the ask_user callback).                                   *)
(* Confidences are in hundredths (0.85 is 85), deltas in thousandths.      *)
(***************************************************************************)
EXTENDS Integers, Sequences, FiniteSets, TLC

\* ---------------------------------------------------------------- bounds
NTasks == 2
MaxTurns == 3
MaxObjs == 3
MaxRoundsBound == 3

\* NegotiationLoop.__init__ default epsilon=0.05, in thousandths (the unit of
\* a delta)
Epsilon == 50
\* matcher scores and move thresholds used as inputs of a negotiation
Scores == {40, 42, 45, 50, 60, 70, 75, 80, 85}
Thresholds == {50, 85}

Ids == {"c1", "c2"}
Tasks == 1..NTasks
NoId == "none"
NoTurn == [src |-> 0, turn_num |-> 0]

VARIABLES
    tasks,          \* in-flight process_turn coroutines: position and locals
    nsub,           \* number of process_turn calls submitted so far
    heap,           \* PersistentState objects (Python objects, shared by reference)
    ephemeral_cache,\* TTLCache._cache: conversation id -> (object, expired?)
    state_lock,     \* StateManager.state_lock: holder and FIFO waiters
    conversations,  \* SQLite table conversations
    turns,          \* SQLite table turns (rows in rowid order)
    writeLog,       \* observed writes of conversation state: who wrote, lock held?
    completed,      \* per conversation: the turns whose update() call has returned
    neg,            \* one run of NegotiationLoop.clarify_until_confident
    dlg,            \* one conversation driven turn by turn: slots, awaiting marker, last result
    casc,           \* one call of CascadeMatcher.match: inputs, loop position, result
    rt,             \* one LGDLRuntime under construction and in use: config, components
    pt,             \* process_turn calls on one conversation: configuration, outcome
    ttl,            \* one TTLCache with its clock
    del,            \* StateManager over one SQLite store: cache, tables, reads
    emb,            \* EmbeddingClient instances in processes sharing one cache file
    lrn,            \* LearningEngine and ReviewWorkflow: proposals and their status
    enr             \* one call of NegotiationLoop._enrich_input: inputs, loop position, text

\* the variables of the models of the storage, negotiation and dialogue layers
coreVars == <<tasks, nsub, heap, ephemeral_cache, state_lock, conversations, turns,
              writeLog, completed, neg, dlg>>

\* the variables of the component models that follow the dialogue model
moreVars == <<casc, rt, pt, ttl, del, emb, lrn, enr>>

vars == <<tasks, nsub, heap, ephemeral_cache, state_lock, conversations, turns,
          writeLog, completed, neg, dlg, moreVars>>

stateVars == <<tasks, nsub, heap, ephemeral_cache, state_lock, conversations,
               turns, writeLog, completed, dlg, moreVars>>

\* ------------------------------------------------------------ data model
IdleTask == [pc |-> "idle", cid |-> NoId, sub |-> 0, st |-> 0, ust |-> 0,
             turn |-> NoTurn, caller |-> "none"]

NoEntry == [obj |-> 0, expired |-> FALSE]

NoRow == [exists |-> FALSE, awaiting_response |-> FALSE, awaiting_slot |-> FALSE]

\* PersistentState as built by create_conversation
NewState(c) == [cid |-> c, turns_history |-> <<>>,
                awaiting_response |-> FALSE, awaiting_slot |-> FALSE]

\* PersistentState.turn_count
turn_count(s) == Len(s.turns_history)

\* PersistentState.add_turn
add_turn(s, turn) == [s EXCEPT !.turns_history = Append(@, turn)]

\* ------------------------------------------------------ SQLite storage
RECURSIVE MaxTurnNum(_)
MaxTurnNum(rows) ==
    IF rows = <<>> THEN 0
    ELSE LET m == MaxTurnNum(Tail(rows))
         IN IF Head(rows).turn_num > m THEN Head(rows).turn_num ELSE m

\* state.turns_history[existing_turns:]
SliceFrom(hist, existing) ==
    IF existing >= Len(hist) THEN <<>> ELSE SubSeq(hist, existing + 1, Len(hist))

\* save_conversation, table conversations: UPDATE ... WHERE id = ?
SaveRow(row, s) ==
    IF row.exists
    THEN [row EXCEPT !.awaiting_response = s.awaiting_response,
                     !.awaiting_slot = s.awaiting_slot]
    ELSE row

\* save_conversation, table turns: insert the turns after MAX(turn_num)
SaveTurns(rows, s) == rows \o SliceFrom(s.turns_history, MaxTurnNum(rows))

\* ORDER BY turn_num ASC over rows kept in rowid order (ties keep rowid order)
RECURSIVE InsertByTurnNum(_, _)
InsertByTurnNum(sorted, r) ==
    IF sorted = <<>> THEN <<r>>
    ELSE IF Head(sorted).turn_num <= r.turn_num
         THEN <<Head(sorted)>> \o InsertByTurnNum(Tail(sorted), r)
         ELSE <<r>> \o sorted

RECURSIVE OrderByTurnNum(_)
OrderByTurnNum(rows) ==
    IF rows = <<>> THEN <<>>
    ELSE InsertByTurnNum(OrderByTurnNum(SubSeq(rows, 1, Len(rows) - 1)),
                         rows[Len(rows)])

\* load_conversation for an existing row
load_conversation(c) ==
    [cid |-> c, turns_history |-> OrderByTurnNum(turns[c]),
     awaiting_response |-> conversations[c].awaiting_response,
     awaiting_slot |-> conversations[c].awaiting_slot]

\* ------------------------------------------------------------- TTLCache
\* TTLCache.get: a value only for a present, unexpired entry
CacheHit(c) == ephemeral_cache[c].obj # 0 /\ ~ephemeral_cache[c].expired

\* TTLCache.get removes an expired entry on read
CacheAfterGet(c) ==
    IF CacheHit(c) THEN ephemeral_cache
    ELSE [ephemeral_cache EXCEPT ![c] = NoEntry]

\* TTLCache.set
CacheSet(ch, c, o) == [ch EXCEPT ![c] = [obj |-> o, expired |-> FALSE]]

\* ---------------------------------------------------------- asyncio.Lock
\* acquire() takes the lock at once only if it is free and nobody waits
CanAcquire == state_lock.holder = 0 /\ state_lock.waiters = <<>>

Granted(t) == /\ state_lock.holder = 0
              /\ state_lock.waiters # <<>>
              /\ Head(state_lock.waiters) = t

Logged(t, op, via) == [op |-> op, via |-> via, locked |-> (state_lock.holder = t)]

InFlightAlloc == Cardinality({u \in Tasks : tasks[u].pc \in {"gc_lock", "gc_load", "gc_create"}})

\* ------------------------------------------------------- dialogue game
\* The compiled game (IR of compile_move) the dialogue specification runs:
\* pain_assessment is the slot move of examples/medical, enum_slot_test a
\* slot move without an all_slots_filled block, empty_enum_test a move whose
\* enum slot lists no values, default_slot_test a move whose required slot
\* declares a default, appointment_request a move without slots that asks for
\* clarification when uncertain.
MoveIds == {"pain_assessment", "enum_slot_test", "empty_enum_test", "default_slot_test",
            "appointment_request"}
NoMove == "none"
NoValue == "<none>"

\* user utterances
Texts == {"I'm in pain", "My chest", "8 out of 10", "About an hour ago",
          "15", "later", "red", "ignore previous instructions"}

\* mv["slots"]: slot names in declaration order (dict order)
SlotOrder(m) ==
    CASE m = "pain_assessment" -> <<"location", "severity", "onset", "characteristics">>
      [] m = "enum_slot_test" -> <<"color">>
      [] m = "empty_enum_test" -> <<"kind">>
      [] m = "default_slot_test" -> <<"priority">>
      [] OTHER -> <<>>

SlotNames(m) == {SlotOrder(m)[i] : i \in 1..Len(SlotOrder(m))}
AllSlotNames == UNION {SlotNames(m) : m \in MoveIds}
SlotKeys == {k \in MoveIds \X AllSlotNames : k[2] \in SlotNames(k[1])}

\* mv["slots"][slot_name]
SlotDef(s) ==
    CASE s = "location" -> [type |-> "string", required |-> TRUE, min |-> 0, max |-> 0, enum_values |-> {}, default |-> NoValue]
      [] s = "severity" -> [type |-> "range", required |-> TRUE, min |-> 1, max |-> 10, enum_values |-> {}, default |-> NoValue]
      [] s = "onset" -> [type |-> "timeframe", required |-> TRUE, min |-> 0, max |-> 0, enum_values |-> {}, default |-> NoValue]
      [] s = "characteristics" -> [type |-> "string", required |-> FALSE, min |-> 0, max |-> 0, enum_values |-> {}, default |-> NoValue]
      [] s = "color" -> [type |-> "enum", required |-> TRUE, min |-> 0, max |-> 0,
                         enum_values |-> {"red", "green", "blue"},
                         default |-> NoValue]
      [] s = "priority" -> [type |-> "string", required |-> TRUE, min |-> 0, max |-> 0,
                            enum_values |-> {}, default |-> "normal"]
      [] OTHER -> [type |-> "enum", required |-> TRUE, min |-> 0, max |-> 0, enum_values |-> {}, default |-> NoValue]

\* mv["threshold"], hundredths
Threshold(m) == IF m = "appointment_request" THEN 85 ELSE 80

\* "all_slots_filled" in mv["slot_conditions"], and its actions
HasAllSlotsFilled(m) == m \in {"pain_assessment", "empty_enum_test"}
AllSlotsFilledActions(m) ==
    IF m = "pain_assessment" THEN <<"capability:assess_pain", "respond:assessment">>
    ELSE <<"respond:recorded">>

\* mv["blocks"]: condition and actions, in order
Blocks(m) ==
    CASE m = "appointment_request" ->
            <<[cond |-> "uncertain", actions |-> <<"ask_clarification">>],
              [cond |-> "confident", actions |-> <<"capability:check_availability", "respond:booked">>]>>
      [] m = "pain_assessment" ->
            <<[cond |-> "slot_missing", actions |-> <<"respond:prompt_slot">>],
              [cond |-> "all_slots_filled", actions |-> <<"capability:assess_pain", "respond:assessment">>],
              [cond |-> "successful", actions |-> <<"respond:urgent_care">>],
              [cond |-> "failed", actions |-> <<"respond:call_nurse">>]>>
      [] OTHER ->
            <<[cond |-> "slot_missing", actions |-> <<"respond:prompt_slot">>],
              [cond |-> "confident", actions |-> <<"respond:thanks">>]>>

\* params of a match: slot name -> captured value
NoParams == [s \in AllSlotNames |-> NoValue]

\* what route/match hands to the rest of the turn
MatchOutcomes ==
    {[move |-> NoMove, score |-> 0, params |-> NoParams],
     [move |-> "pain_assessment", score |-> 90, params |-> NoParams],
     [move |-> "pain_assessment", score |-> 90, params |-> [NoParams EXCEPT !["location"] = "chest"]],
     [move |-> "pain_assessment", score |-> 90, params |-> [NoParams EXCEPT !["severity"] = "15"]],
     [move |-> "enum_slot_test", score |-> 90, params |-> NoParams],
     [move |-> "empty_enum_test", score |-> 90, params |-> NoParams],
     [move |-> "default_slot_test", score |-> 90, params |-> NoParams],
     [move |-> "appointment_request", score |-> 65, params |-> NoParams],
     [move |-> "appointment_request", score |-> 90, params |-> NoParams]}

\* scores a re-match can return during a negotiation inside a turn
DlgScores == {65, 70, 88}
\* LGDL_NEGOTIATION_MAX_ROUNDS default "3"
DlgMaxRounds == 3

NoResult == [move_id |-> NoMove, confidence |-> 0, response |-> "none",
             awaiting_slot |-> NoValue, executed |-> <<>>, params |-> NoParams,
             route |-> "none",
             matcher_calls |-> 0, params0 |-> NoParams,
             negotiation |-> [ran |-> FALSE, success |-> FALSE, reason |-> "none", rounds |-> <<>>]]

\* a fresh conversation; state is the cached PersistentState, row its
\* conversations row, slots the slots table
DlgIdle == [pc |-> "idle",
            state |-> [awaiting_slot_for_move |-> NoMove, awaiting_slot_name |-> NoValue],
            row |-> [awaiting_slot_for_move |-> NoMove, awaiting_slot_name |-> NoValue],
            cached |-> FALSE,
            slots |-> [k \in SlotKeys |-> NoValue],
            text |-> "none", cleaned |-> "none", mv |-> NoMove, score |-> 0,
            params |-> NoParams, capok |-> TRUE,
            result |-> NoResult,
            script |-> 0]

\* ------------------------------------------------- cascade matcher data
\* moves of a compiled game as CascadeMatcher.match sees them for one input
\* text: does a regex of the move match, the raw cosine of the text and the
\* pattern embeddings (hundredths), the number of common tokens (-1: one side
\* has no token), whether the LLM call fails, and the "confidence" field of the
\* JSON the LLM returns (hundredths; json.loads does not check the schema)
MoveProfiles ==
    {[lex |-> TRUE, cos |-> 100, common |-> 5, llm_fails |-> FALSE, llm |-> 95],
     [lex |-> TRUE, cos |-> 50, common |-> 2, llm_fails |-> TRUE, llm |-> 0],
     [lex |-> FALSE, cos |-> 70, common |-> 4, llm_fails |-> FALSE, llm |-> 88],
     [lex |-> FALSE, cos |-> 50, common |-> 2, llm_fails |-> FALSE, llm |-> 150],
     [lex |-> FALSE, cos |-> 50, common |-> 2, llm_fails |-> FALSE, llm |-> 60],
     [lex |-> FALSE, cos |-> 0 - 50, common |-> 0, llm_fails |-> TRUE, llm |-> 0],
     [lex |-> FALSE, cos |-> 0, common |-> 0 - 1, llm_fails |-> FALSE, llm |-> 95]}

\* compiled_game["moves"], in game order
MaxMoves == 2
Games == UNION {[1..n -> MoveProfiles] : n \in 0..MaxMoves}

\* LGDLConfig cascade thresholds (defaults 0.75 and 0.80), whether the LLM
\* matcher exists, whether EmbeddingClient.enabled, whether a context is passed
CascConfigs ==
    [cascade_lexical_threshold : {75, 90}, cascade_embedding_threshold : {80},
     llm_matcher : BOOLEAN, emb_enabled : BOOLEAN, context : BOOLEAN]

\* no move (move: None)
NoCand == [move |-> 0, score |-> 0, stage |-> "none"]

CascIdle == [pc |-> "idle", game |-> <<>>,
             config |-> [cascade_lexical_threshold |-> 75, cascade_embedding_threshold |-> 80,
                         llm_matcher |-> FALSE, emb_enabled |-> FALSE, context |-> FALSE],
             i |-> 0, best_overall |-> NoCand, scanned |-> NoCand, result |-> NoCand,
             emb_calls |-> 0, llm_calls |-> 0, llm_confs |-> <<>>, llm_failures |-> 0]

\* config.openai_api_key: None, the empty string, a key of the test suite, a key
NoKey == "<None>"
ApiKeys == {NoKey, "", "test", "sk-live"}

\* LGDLConfig fields read while the runtime is constructed
RtConfigs ==
    [enable_llm_semantic_matching : BOOLEAN, enable_semantic_slot_extraction : BOOLEAN,
     openai_api_key : ApiKeys]

\* slot_def["extraction_strategy"]
Strategies == {"regex", "semantic", "hybrid"}

RtIdle == [pc |-> "idle",
           config |-> [enable_llm_semantic_matching |-> FALSE,
                       enable_semantic_slot_extraction |-> FALSE, openai_api_key |-> NoKey],
           state_manager |-> FALSE, openai_available |-> FALSE,
           error |-> "none", matcher |-> "none",
           llm_matcher |-> "none", slot_manager |-> FALSE, semantic |-> "none",
           cap |-> FALSE, extractor |-> "none"]
\* how a runtime is set up: matcher kind (self.use_cascade), LGDL_TEST_MODE,
\* and whether the clarify action of the game carries options
PtConfigs == [use_cascade : BOOLEAN, test_mode : BOOLEAN, options : BOOLEAN]

PtIdle == [pc |-> "idle", use_cascade |-> FALSE, test_mode |-> FALSE, options |-> FALSE,
           awaiting_response |-> FALSE, faults |-> {}]
\* TTLCache: keys, values, the ttl values given to the constructor (seconds),
\* and the last instant of the clock
TtlKeys == {"k1", "k2"}
TtlValues == {"v1", "v2"}
TtlChoices == {0, 1, 2}
MaxClock == 4
NoCached == "<None>"
NoSlot == [present |-> FALSE, value |-> NoCached, expiry |-> 0]

\* _cache, datetime.utcnow() as now; op, key, ret and removed describe the last
\* call; last_set is the time of the last set of each key (-1: never)
TtlIdle == [pc |-> "idle", ttl |-> 0, now |-> 0,
            cache |-> [k \in TtlKeys |-> NoSlot],
            last_set |-> [k \in TtlKeys |-> 0 - 1],
            op |-> "none", key |-> "k1", ret |-> NoCached, removed |-> {}]
\* one conversation id over its lives: gen counts the delete calls, every
\* stored item carries the gen that wrote it; a context or slot value is the
\* gen of its writer, NoGen when absent
MaxDeletes == 2
MaxDelTurns == 2
NoGen == 0 - 1

\* foreign_keys: whether the SQLite library enforces foreign keys on a
\* connection that sets no PRAGMA (SQLITE_DEFAULT_FOREIGN_KEYS of the build)
DelIdle == [pc |-> "idle", foreign_keys |-> FALSE, gen |-> 0,
            conv |-> FALSE, turns |-> <<>>, ctx |-> NoGen, slot |-> NoGen,
            cache |-> [present |-> FALSE, turns_history |-> <<>>, extracted_context |-> NoGen],
            op |-> "none", fresh_due |-> FALSE, first |-> FALSE,
            read |-> [turns_history |-> <<>>, extracted_context |-> NoGen, slot |-> NoGen]]
\* offline embeddings: Python processes, each with the seed of its str hash
\* (randomised per process unless PYTHONHASHSEED is set), texts as the sequence
\* of their character bigrams, a vocabulary (256 in the code) kept small
EmbProcs == {1, 2}
HashSeeds == {0, 1}
NoSeed == 0 - 1
VocabSize == 3
EmbTexts == {<<0, 1>>, <<1, 2, 2>>}
NoVec == <<>>

\* cache is the embeddings table of the cache file the processes share;
\* computed and written collect what _offline_embedding returned and what
\* _store_cache wrote
EmbIdle == [proc |-> [p \in EmbProcs |-> [seed |-> NoSeed, cache_enabled |-> TRUE, pc |-> "idle",
                                         text |-> <<>>, ret |-> NoVec,
                                         own |-> [t \in EmbTexts |-> NoVec]]],
            cache |-> [t \in EmbTexts |-> NoVec],
            computed |-> {}, written |-> {}]
\* uuid4()[:8] proposal ids: random, so two proposals may share one.
ProposalIds == {"id1", "id2"}

MaxProposals == 2

\* Texts as the word sets _text_similarity compares; {} is None or "".
LrnTexts == {{}, {"pain"}, {"pain", "chest"}}

\* reviewer_id is any string the caller passes, the empty one included.
Reviewers == {"", "reviewer_alice"}

Outcomes == {"success", "failure"}

\* The fields of an Interaction that learn_from_interaction branches on.
Interactions ==
    [matched_pattern : {{}, {"pain", "chest"}}, outcome : Outcomes,
     negotiation_rounds : {0, 1}, final_understanding : LrnTexts,
     low_confidence : BOOLEAN]

NoOp == [op |-> "none", target |-> 0, refused |-> FALSE]

LrnIdle == [patterns |-> {}, proposals |-> <<>>, deployed |-> {}, last |-> NoOp]

\* ------------------------------------------------ input enrichment: data
\* MAX_ENRICHED_LENGTH
MaxEnrichedLength == 2048
\* most entries of the params dict handed to _enrich_input
MaxParams == 2

\* A text is a sequence of runs: n whitespace characters (ws) or n other
\* characters. Its content matters only through its length, its whitespace
\* and, for a parameter value, its lowercase form.
Word(n) == [ws |-> FALSE, n |-> n]
Space(n) == [ws |-> TRUE, n |-> n]

\* parameter values by lowercase form; 0 is a falsy value (None, "", 0)
ParamVals == 0..MaxParams
\* str(val)
ValText(v) ==
    CASE v = 0 -> <<>>
      [] v = 1 -> <<Word(5)>>
      [] OTHER -> <<Word(12), Space(2), Word(16)>>

\* original inputs: the text, and the values whose lowercase form occurs in
\* original.lower()
OriginalTexts ==
    {<<Word(20)>>,
     <<Space(1), Word(10), Space(3), Word(10), Space(1)>>,
     <<Word(1000), Space(2000), Word(30)>>,
     <<Word(2040)>>,
     <<Word(2048)>>,
     <<Word(2100)>>}
Originals == {[text |-> t, mentions |-> ms] : t \in OriginalTexts, ms \in {{}, {1}}}

\* params.items() in insertion order
ParamSeqs == UNION {[1..n -> ParamVals] : n \in 0..MaxParams}

EnrIdle == [pc |-> "idle", original |-> [text |-> <<>>, mentions |-> {}],
            params |-> <<>>, ret |-> <<>>]

\* ---------------------------------------------------------------- Init
NegIdle == [pc |-> "off", max_rounds |-> 0, threshold |-> 0, has_clarify |-> FALSE,
            round_num |-> 0, confidence |-> 0, no_gain_count |-> 0,
            rounds |-> <<>>, asks |-> 0, rematches |-> 0,
            rematch_move |-> "none",
            success |-> FALSE, reason |-> "none", final_confidence |-> 0]

InitState ==
    /\ tasks = [t \in Tasks |-> IdleTask]
    /\ nsub = 0
    /\ heap = <<>>
    /\ ephemeral_cache = [c \in Ids |-> NoEntry]
    /\ state_lock = [holder |-> 0, waiters |-> <<>>]
    /\ conversations = [c \in Ids |-> NoRow]
    /\ turns = [c \in Ids |-> <<>>]
    /\ writeLog = {}
    /\ completed = [c \in Ids |-> {}]
    /\ dlg = DlgIdle
    /\ casc = CascIdle
    /\ rt = RtIdle
    /\ pt = PtIdle
    /\ ttl = TtlIdle
    /\ del = DelIdle
    /\ emb = EmbIdle
    /\ lrn = LrnIdle
    /\ enr = EnrIdle

Init == InitState /\ neg = NegIdle

\* ------------------------------------------------- StateManager.update
\* update() after state_lock is acquired: get_or_create, add_turn, then the
\* await on save_conversation.  On a cache miss get_or_create asks for
\* state_lock again (asyncio.Lock is not reentrant).
UpdateLocked(t, tk, hp, waiting) ==
    LET c == tk.cid IN
    IF CacheHit(c)
    THEN LET o == ephemeral_cache[c].obj IN
         /\ heap' = [hp EXCEPT ![o] = add_turn(@, tk.turn)]
         /\ tasks' = [tasks EXCEPT ![t] = [tk EXCEPT !.pc = "upd_save", !.ust = o]]
         /\ state_lock' = [holder |-> t, waiters |-> waiting]
         /\ writeLog' = writeLog \cup {[op |-> "mutate", via |-> "StateManager", locked |-> TRUE]}
         /\ UNCHANGED ephemeral_cache
    ELSE /\ heap' = hp
         /\ ephemeral_cache' = CacheAfterGet(c)
         /\ tasks' = [tasks EXCEPT ![t] = [tk EXCEPT !.pc = "gc_lock", !.caller = "update"]]
         /\ state_lock' = [holder |-> t, waiters |-> Append(waiting, t)]
         /\ UNCHANGED writeLog

\* ------------------------------------------- LGDLRuntime.process_turn
\* process_turn is called: get_or_create(conversation_id) up to its first
\* suspension
Submit(t, c) ==
    /\ tasks[t].pc = "idle"
    /\ nsub < MaxTurns
    /\ nsub' = nsub + 1
    /\ IF CacheHit(c)
       THEN /\ tasks' = [tasks EXCEPT ![t] = [IdleTask EXCEPT !.pc = "pt_proc", !.cid = c,
                                   !.sub = nsub + 1, !.st = ephemeral_cache[c].obj]]
            /\ UNCHANGED <<ephemeral_cache, state_lock>>
       ELSE /\ Len(heap) + InFlightAlloc < MaxObjs
            /\ ephemeral_cache' = CacheAfterGet(c)
            /\ IF CanAcquire
               THEN /\ state_lock' = [state_lock EXCEPT !.holder = t]
                    /\ tasks' = [tasks EXCEPT ![t] = [IdleTask EXCEPT !.pc = "gc_load", !.cid = c,
                                   !.sub = nsub + 1, !.caller = "process_turn"]]
               ELSE /\ state_lock' = [state_lock EXCEPT !.waiters = Append(@, t)]
                    /\ tasks' = [tasks EXCEPT ![t] = [IdleTask EXCEPT !.pc = "gc_lock", !.cid = c,
                                   !.sub = nsub + 1, !.caller = "process_turn"]]
    /\ UNCHANGED <<heap, conversations, turns, writeLog, completed, neg, dlg, moreVars>>

\* get_or_create: the waiter at the head of state_lock gets the lock
GcLockGranted(t) ==
    /\ tasks[t].pc = "gc_lock"
    /\ Granted(t)
    /\ state_lock' = [holder |-> t, waiters |-> Tail(state_lock.waiters)]
    /\ tasks' = [tasks EXCEPT ![t].pc = "gc_load"]
    /\ UNCHANGED <<nsub, heap, ephemeral_cache, conversations, turns, writeLog, completed, neg, dlg, moreVars>>

\* get_or_create returns object s: cache it, release state_lock, go on in
\* the caller
GetOrCreateReturn(t, s) ==
    LET o == Len(heap) + 1
        c == tasks[t].cid
    IN /\ ephemeral_cache' = CacheSet(ephemeral_cache, c, o)
       /\ state_lock' = [state_lock EXCEPT !.holder = 0]
       /\ writeLog' = writeLog \cup {Logged(t, "cache_set", "StateManager")}
       /\ IF tasks[t].caller = "update"
          THEN /\ heap' = Append(heap, add_turn(s, tasks[t].turn))
               /\ tasks' = [tasks EXCEPT ![t].pc = "upd_save", ![t].ust = o]
          ELSE /\ heap' = Append(heap, s)
               /\ tasks' = [tasks EXCEPT ![t].pc = "pt_proc", ![t].st = o]

\* get_or_create: load_conversation has answered
GcLoad(t) ==
    /\ tasks[t].pc = "gc_load"
    /\ IF conversations[tasks[t].cid].exists
       THEN GetOrCreateReturn(t, load_conversation(tasks[t].cid))
       ELSE /\ tasks' = [tasks EXCEPT ![t].pc = "gc_create"]
            /\ UNCHANGED <<heap, ephemeral_cache, state_lock, writeLog>>
    /\ UNCHANGED <<nsub, conversations, turns, completed, neg, dlg, moreVars>>

\* get_or_create: create_conversation has inserted the row
GcCreate(t) ==
    /\ tasks[t].pc = "gc_create"
    /\ conversations' = [conversations EXCEPT ![tasks[t].cid] = [NoRow EXCEPT !.exists = TRUE]]
    /\ GetOrCreateReturn(t, NewState(tasks[t].cid))
    /\ UNCHANGED <<nsub, turns, completed, neg, dlg, moreVars>>

\* route/match/negotiate/slot-fill/execute has finished without a stored turn:
\* the "didn't catch that" reply
ProcNoMatch(t) ==
    /\ tasks[t].pc = "pt_proc"
    /\ ~heap[tasks[t].st].awaiting_slot
    /\ tasks' = [tasks EXCEPT ![t] = IdleTask]
    /\ UNCHANGED <<nsub, heap, ephemeral_cache, state_lock, conversations, turns, writeLog, completed, neg, dlg, moreVars>>

\* a required slot is missing: the engine sets the awaiting-slot marker on
\* its state object and saves it through persistent_storage
ProcSlotPrompt(t) ==
    /\ tasks[t].pc = "pt_proc"
    /\ heap' = [heap EXCEPT ![tasks[t].st].awaiting_slot = TRUE]
    /\ tasks' = [tasks EXCEPT ![t].pc = "pt_slot_save"]
    /\ writeLog' = writeLog \cup {Logged(t, "mutate", "engine")}
    /\ UNCHANGED <<nsub, ephemeral_cache, state_lock, conversations, turns, completed, neg, dlg, moreVars>>

\* save_conversation(state) of the slot prompt has committed; the turn returns
SlotSave(t) ==
    /\ tasks[t].pc = "pt_slot_save"
    /\ LET s == heap[tasks[t].st] IN
         /\ conversations' = [conversations EXCEPT ![s.cid] = SaveRow(@, s)]
         /\ turns' = [turns EXCEPT ![s.cid] = SaveTurns(@, s)]
    /\ writeLog' = writeLog \cup {Logged(t, "save", "engine")}
    /\ tasks' = [tasks EXCEPT ![t] = IdleTask]
    /\ UNCHANGED <<nsub, heap, ephemeral_cache, state_lock, completed, neg, dlg, moreVars>>

\* the move executes: Turn(turn_num = state.turn_count + 1) is built and
\* state_manager.update is called
ProcExecute(t) ==
    /\ tasks[t].pc = "pt_proc"
    /\ LET o == tasks[t].st
           hp == [heap EXCEPT ![o].awaiting_slot = FALSE]
           tk == [tasks[t] EXCEPT !.turn = [src |-> tasks[t].sub,
                                            turn_num |-> turn_count(heap[o]) + 1]]
       IN IF CanAcquire
          THEN UpdateLocked(t, tk, hp, <<>>)
          ELSE /\ heap' = hp
               /\ tasks' = [tasks EXCEPT ![t] = [tk EXCEPT !.pc = "upd_lock"]]
               /\ state_lock' = [state_lock EXCEPT !.waiters = Append(@, t)]
               /\ UNCHANGED <<ephemeral_cache, writeLog>>
    /\ UNCHANGED <<nsub, conversations, turns, completed, neg, dlg, moreVars>>

\* update: the waiter at the head of state_lock gets the lock
UpdLockGranted(t) ==
    /\ tasks[t].pc = "upd_lock"
    /\ Granted(t)
    /\ UpdateLocked(t, tasks[t], heap, Tail(state_lock.waiters))
    /\ UNCHANGED <<nsub, conversations, turns, completed, neg, dlg, moreVars>>

\* update: save_conversation(state) has committed
UpdSave(t) ==
    /\ tasks[t].pc = "upd_save"
    /\ LET s == heap[tasks[t].ust] IN
         /\ conversations' = [conversations EXCEPT ![s.cid] = SaveRow(@, s)]
         /\ turns' = [turns EXCEPT ![s.cid] = SaveTurns(@, s)]
    /\ writeLog' = writeLog \cup {Logged(t, "save", "StateManager")}
    /\ tasks' = [tasks EXCEPT ![t].pc = "upd_ret"]
    /\ UNCHANGED <<nsub, heap, ephemeral_cache, state_lock, completed, neg, dlg, moreVars>>

\* update: cache refresh, lock release, return; then the engine sets or
\* clears awaiting_response on the returned object (response_parser)
UpdReturn(t, has_questions) ==
    /\ tasks[t].pc = "upd_ret"
    /\ ephemeral_cache' = CacheSet(ephemeral_cache, tasks[t].cid, tasks[t].ust)
    /\ state_lock' = [state_lock EXCEPT !.holder = 0]
    /\ heap' = [heap EXCEPT ![tasks[t].ust].awaiting_response = has_questions]
    /\ writeLog' = writeLog \cup {Logged(t, "cache_set", "StateManager"),
                                  [op |-> "mutate", via |-> "engine", locked |-> FALSE]}
    /\ tasks' = [tasks EXCEPT ![t].pc = "pt_qsave"]
    /\ completed' = [completed EXCEPT ![tasks[t].cid] = @ \cup {tasks[t].sub}]
    /\ UNCHANGED <<nsub, conversations, turns, neg, dlg, moreVars>>

\* the engine's own save_conversation(updated_state) has committed, then the
\* engine's own ephemeral_cache.set; the turn returns its result
QSave(t) ==
    /\ tasks[t].pc = "pt_qsave"
    /\ LET s == heap[tasks[t].ust] IN
         /\ conversations' = [conversations EXCEPT ![s.cid] = SaveRow(@, s)]
         /\ turns' = [turns EXCEPT ![s.cid] = SaveTurns(@, s)]
    /\ ephemeral_cache' = CacheSet(ephemeral_cache, tasks[t].cid, tasks[t].ust)
    /\ writeLog' = writeLog \cup {Logged(t, "save", "engine"), Logged(t, "cache_set", "engine")}
    /\ tasks' = [tasks EXCEPT ![t] = IdleTask]
    /\ UNCHANGED <<nsub, heap, state_lock, completed, neg, dlg, moreVars>>

\* ttl seconds have passed since the entry was set
Expire(c) ==
    /\ ephemeral_cache[c].obj # 0
    /\ ~ephemeral_cache[c].expired
    /\ ephemeral_cache' = [ephemeral_cache EXCEPT ![c].expired = TRUE]
    /\ UNCHANGED <<tasks, nsub, heap, state_lock, conversations, turns, writeLog, completed, neg, dlg, moreVars>>

\* a new StateManager (fresh cache, fresh lock) on the same backing store,
\* once no turn is in flight
Restart ==
    /\ \A t \in Tasks : tasks[t].pc = "idle"
    /\ heap # <<>>
    /\ heap' = <<>>
    /\ ephemeral_cache' = [c \in Ids |-> NoEntry]
    /\ state_lock' = [holder |-> 0, waiters |-> <<>>]
    /\ UNCHANGED <<tasks, nsub, conversations, turns, writeLog, completed, neg, dlg, moreVars>>

Next ==
    \/ \E t \in Tasks, c \in Ids : Submit(t, c)
    \/ \E t \in Tasks : GcLockGranted(t)
    \/ \E t \in Tasks : GcLoad(t)
    \/ \E t \in Tasks : GcCreate(t)
    \/ \E t \in Tasks : ProcNoMatch(t)
    \/ \E t \in Tasks : ProcSlotPrompt(t)
    \/ \E t \in Tasks : SlotSave(t)
    \/ \E t \in Tasks : ProcExecute(t)
    \/ \E t \in Tasks : UpdLockGranted(t)
    \/ \E t \in Tasks : UpdSave(t)
    \/ \E t \in Tasks, q \in BOOLEAN : UpdReturn(t, q)
    \/ \E t \in Tasks : QSave(t)
    \/ \E c \in Ids : Expire(c)
    \/ Restart

Spec == Init /\ [][Next]_vars

\* ============================================== claims on Spec (C1 - C5)
\* no process_turn of conversation c is between its call and its return
Quiescent(c) == \A t \in Tasks : tasks[t].cid # c

\* positions of seq holding the first record of their turn
FirstRecord(seq, i) == \A k \in 1..(i - 1) : seq[k].src # seq[i].src

\* records appear in the order in which their turns were submitted
InSubmissionOrder(seq) ==
    \A i, j \in 1..Len(seq) :
        (i < j /\ FirstRecord(seq, i) /\ FirstRecord(seq, j)) => seq[i].src < seq[j].src

\* C1: turns of one conversation id are appended to turns_history and written
\* to the durable store in submission order, also when their processing
\* overlaps.
C1_SubmissionOrder ==
    /\ \A o \in 1..Len(heap) : InSubmissionOrder(heap[o].turns_history)
    /\ \A c \in Ids : InSubmissionOrder(turns[c])

\* C2: every turns_history carries the turn numbers 1,2,...,n.
C2_TurnNumbers ==
    \A o \in 1..Len(heap) :
        \A i \in 1..Len(heap[o].turns_history) : heap[o].turns_history[i].turn_num = i

\* seq holds exactly one record of every turn in set and nothing else
ExactlyOnce(seq, set) ==
    /\ \A x \in set : Cardinality({i \in 1..Len(seq) : seq[i].src = x}) = 1
    /\ \A i \in 1..Len(seq) : seq[i].src \in set

\* C3: after a burst of concurrent update calls on one conversation, its
\* history in memory and in the durable store holds exactly those turns, none
\* missing and none twice.
C3_BurstExact ==
    \A c \in Ids :
        Quiescent(c) =>
            /\ ExactlyOnce(turns[c], completed[c])
            /\ ephemeral_cache[c].obj # 0 =>
                 ExactlyOnce(heap[ephemeral_cache[c].obj].turns_history, completed[c])

\* C4: once the update calls have completed, a new StateManager on the same
\* store loads a turns_history identical to the one held in memory.
C4_Durable ==
    \A c \in Ids :
        (Quiescent(c) /\ ephemeral_cache[c].obj # 0) =>
            /\ conversations[c].exists
            /\ load_conversation(c).turns_history
                 = heap[ephemeral_cache[c].obj].turns_history

\* C5: every mutation of a PersistentState and every write of it to the store
\* or the cache is made by a StateManager call holding state_lock.
C5_OnlyManagerUnderLock ==
    \A w \in writeLog : w.via = "StateManager" /\ w.locked

\* ============================================================ negotiation
\* NegotiationLoop.clarify_until_confident, entered with its arguments
NegStart(mr, th, sc, hc) ==
    [NegIdle EXCEPT !.pc = "loop", !.max_rounds = mr, !.threshold = th,
                    !.has_clarify = hc, !.confidence = sc]

InitNeg ==
    /\ InitState
    /\ neg \in {NegStart(mr, th, sc, hc) : mr \in 0..MaxRoundsBound, th \in Thresholds,
                                          sc \in Scores, hc \in BOOLEAN}

\* the loop bound taken one too far
LoopContinues_m(n) == n.round_num <= n.max_rounds

\* for round_num in range(1, self.max_rounds + 1)
LoopContinues(n) == n.round_num < n.max_rounds

\* a strict comparison with the threshold
ThresholdMet_m(confidence, threshold) == confidence > threshold

\* STOP CONDITION 1: confidence >= threshold
ThresholdMet(confidence, threshold) == confidence >= threshold

\* pairs (before, after) of the scores used here whose difference in IEEE-754
\* double arithmetic, after/100 - before/100, falls below the exact one
\* (0.45 - 0.40 = 0.04999999999999999)
RoundedBelow == {<<40, 45>>, <<45, 50>>, <<65, 70>>, <<80, 85>>}

\* delta = confidence_after - confidence_before as the float subtraction
\* gives it, in thousandths
FloatDelta(before, after) ==
    (after - before) * 10 - (IF <<before, after>> \in RoundedBelow THEN 1 ELSE 0)

\* a decreasing round counted as a round without gain
NextNoGain_neg(count, delta) ==
    IF delta < Epsilon THEN count + 1
    ELSE 0

\* a gain of exactly epsilon counted as no gain
NextNoGain_m(count, delta) ==
    IF delta < 0 THEN 0
    ELSE IF delta <= Epsilon THEN count + 1
    ELSE 0

\* stagnation counter after a round with the given delta
NextNoGain(count, delta) ==
    IF delta < 0 THEN 0
    ELSE IF delta < Epsilon THEN count + 1
    ELSE 0

\* stagnation only after three rounds without gain
Stagnated_m(count) == count >= 3

\* STOP CONDITION 3: no_gain_count >= 2, tested on the counter just
\* incremented (the two resetting branches leave it at 0)
Stagnated(count) == count >= 2

\* rounds numbered from 0
RecordRound_m(n, after) ==
    Append(n.rounds, [round_num |-> Len(n.rounds), confidence_before |-> n.confidence,
                      confidence_after |-> after])

\* rounds.append(NegotiationRound(round_num=round_num, ...))
RecordRound(n, after) ==
    Append(n.rounds, [round_num |-> n.round_num, confidence_before |-> n.confidence,
                      confidence_after |-> after])

NegotiationResult(n, ok, why) ==
    [n EXCEPT !.pc = "done", !.success = ok, !.reason = why,
              !.final_confidence = n.confidence]

\* loop head: next round (find the clarify action, call ask_user), or the
\* return after the loop
NegLoop ==
    /\ neg.pc = "loop"
    /\ IF LoopContinues(neg)
       THEN IF neg.has_clarify
            THEN neg' = [neg EXCEPT !.pc = "asking", !.round_num = @ + 1, !.asks = @ + 1]
            ELSE neg' = [neg EXCEPT !.pc = "error", !.round_num = @ + 1]
       ELSE neg' = NegotiationResult(neg, FALSE, "max_rounds_exceeded")
    /\ UNCHANGED stateVars

\* new_match["move"] of a re-match over all moves of the game: the move
\* under negotiation or another one
RematchMoves == {"same", "other"}

\* ask_user has returned: re-match on the enriched input gives score for its
\* best move, only new_match["score"] is read; the round is recorded and the
\* stop conditions are evaluated
NegAnswer(score) ==
    /\ neg.pc = "asking"
    /\ \E best \in RematchMoves :
       LET delta == FloatDelta(neg.confidence, score)
           count == NextNoGain(neg.no_gain_count, delta)
           n1 == [neg EXCEPT !.rounds = RecordRound(neg, score), !.confidence = score,
                             !.rematches = @ + 1, !.rematch_move = best]
       IN IF ThresholdMet(score, neg.threshold)
          THEN neg' = NegotiationResult(n1, TRUE, "threshold_met")
          ELSE IF Stagnated(count)
               THEN neg' = NegotiationResult([n1 EXCEPT !.no_gain_count = count],
                                             FALSE, "no_information_gain")
               ELSE neg' = [n1 EXCEPT !.pc = "loop", !.no_gain_count = count]
    /\ UNCHANGED stateVars

NextNeg ==
    \/ NegLoop
    \/ \E score \in Scores : NegAnswer(score)

SpecNeg == InitNeg /\ [][NextNeg]_vars

\* the loop body runs to its next suspension; ask_user returns
SpecNegFair == InitNeg /\ [][NextNeg]_vars /\ WF_vars(NextNeg)

NegEnded == neg.pc = "done"
NRounds == Len(neg.rounds)

\* C6: clarify_until_confident terminates, with at most max_rounds ask_user
\* calls and at most max_rounds re-matches, when every ask_user call returns.
C6_Terminates ==
    /\ [](neg.asks <= neg.max_rounds /\ neg.rematches <= neg.max_rounds
          /\ NRounds <= neg.max_rounds)
    /\ <>(neg.pc \in {"done", "error"})

C6_Witness == NegEnded /\ neg.max_rounds >= 2 /\ neg.asks = neg.max_rounds
              /\ neg.rematches = neg.max_rounds

\* C7: every NegotiationResult has one of the three reasons; success holds
\* exactly when the reason is threshold_met, which is exactly when the last
\* re-match score reached the threshold.
LastRematchMet == NRounds > 0 /\ neg.rounds[NRounds].confidence_after >= neg.threshold

C7_ResultShape ==
    NegEnded =>
        /\ neg.reason \in {"threshold_met", "no_information_gain", "max_rounds_exceeded"}
        /\ neg.success <=> (neg.reason = "threshold_met")
        /\ (neg.reason = "threshold_met") <=> LastRematchMet

C7_Witness == NegEnded /\ neg.success /\ NRounds >= 2
              /\ neg.rounds[NRounds].confidence_after = neg.threshold

\* C8: when the re-matched confidence first reaches the threshold at round k,
\* the result is success, threshold_met, with exactly k rounds numbered 1..k.
FirstReachedAt(k) ==
    /\ k \in 1..NRounds
    /\ neg.rounds[k].confidence_after >= neg.threshold
    /\ \A j \in 1..(k - 1) : neg.rounds[j].confidence_after < neg.threshold

C8_ThresholdAtK ==
    \A k \in 1..NRounds :
        FirstReachedAt(k) =>
            /\ NegEnded /\ neg.success /\ neg.reason = "threshold_met"
            /\ NRounds = k
            /\ \A i \in 1..k : neg.rounds[i].round_num = i

C8_Witness == NegEnded /\ FirstReachedAt(3) /\ neg.no_gain_count = 1

\* two consecutive rounds that left the confidence unchanged, below threshold
FrozenAt(j) ==
    /\ j \in 1..(NRounds - 1)
    /\ \A i \in {j, j + 1} :
         /\ neg.rounds[i].confidence_after = neg.rounds[i].confidence_before
         /\ neg.rounds[i].confidence_after < neg.threshold

\* C9 as stated: frozen for 2 consecutive rounds => no_information_gain, and
\* fewer than max_rounds rounds have been used.
C9_FrozenBeforeMax ==
    (\E j \in 1..NRounds : FrozenAt(j)) =>
        /\ NegEnded /\ neg.reason = "no_information_gain"
        /\ NRounds < neg.max_rounds

\* C9 amended: frozen for 2 consecutive rounds => the negotiation ends at the
\* second of them with no_information_gain, within max_rounds rounds.
C9_FrozenStops ==
    \A j \in 1..NRounds :
        FrozenAt(j) =>
            /\ NegEnded /\ neg.reason = "no_information_gain"
            /\ NRounds = j + 1
            /\ NRounds <= neg.max_rounds

C9_Witness == NegEnded /\ FrozenAt(NRounds - 1) /\ NRounds = neg.max_rounds
              /\ neg.reason = "no_information_gain"

\* the confidence rose in every recorded round and stayed below the threshold
AlwaysImproving ==
    \A i \in 1..NRounds :
        /\ neg.rounds[i].confidence_after > neg.rounds[i].confidence_before
        /\ neg.rounds[i].confidence_after < neg.threshold

\* every recorded round gained at least epsilon and stayed below the threshold
AlwaysGaining ==
    \A i \in 1..NRounds :
        /\ FloatDelta(neg.rounds[i].confidence_before, neg.rounds[i].confidence_after) >= Epsilon
        /\ neg.rounds[i].confidence_after < neg.threshold

\* C10 as stated: improving in every round but below threshold => all
\* max_rounds rounds run and the reason is max_rounds_exceeded.
C10_ImprovingExhausts ==
    (NegEnded /\ AlwaysImproving) =>
        /\ neg.reason = "max_rounds_exceeded"
        /\ NRounds = neg.max_rounds

\* C10 amended: a computed delta of at least epsilon in every round, below
\* threshold => all max_rounds rounds run, reason max_rounds_exceeded.
C10_GainingExhausts ==
    (NegEnded /\ AlwaysGaining) =>
        /\ neg.reason = "max_rounds_exceeded"
        /\ NRounds = neg.max_rounds

C10_Witness == NegEnded /\ AlwaysGaining /\ NRounds = 3
               /\ neg.reason = "max_rounds_exceeded"

\* ---------------------------------------------------------------- C11
\* the stagnation counter the rounds 1..k call for: reset by delta < 0,
\* incremented by 0 <= delta < epsilon, reset by delta >= epsilon
RECURSIVE StagnationCounter(_)
StagnationCounter(k) ==
    IF k = 0 THEN 0
    ELSE LET delta == FloatDelta(neg.rounds[k].confidence_before, neg.rounds[k].confidence_after)
         IN IF delta < 0 THEN 0
            ELSE IF delta < Epsilon THEN StagnationCounter(k - 1) + 1
            ELSE 0

\* round i stayed below the threshold and changed the confidence by
\* 0 <= delta < epsilon
NoGainRound(i) ==
    /\ i \in 1..NRounds
    /\ neg.rounds[i].confidence_after < neg.threshold
    /\ FloatDelta(neg.rounds[i].confidence_before, neg.rounds[i].confidence_after) >= 0
    /\ FloatDelta(neg.rounds[i].confidence_before, neg.rounds[i].confidence_after) < Epsilon

BelowThresholdSoFar ==
    \A i \in 1..NRounds : neg.rounds[i].confidence_after < neg.threshold

\* C11: the stagnation counter is reset by a round with delta < 0, incremented
\* by a round with 0 <= delta < epsilon and reset by a round with
\* delta >= epsilon; the negotiation fails with no_information_gain exactly
\* when the counter reaches 2, that is after two consecutive below-threshold
\* rounds without gain.
C11_StagnationCounter ==
    /\ (neg.pc \in {"loop", "asking", "done"} /\ BelowThresholdSoFar) =>
          neg.no_gain_count = StagnationCounter(NRounds)
    /\ neg.no_gain_count <= 2
    /\ (NegEnded /\ neg.reason = "no_information_gain") <=> (neg.no_gain_count = 2)
    /\ (NegEnded /\ neg.reason = "no_information_gain") <=>
          (NoGainRound(NRounds - 1) /\ NoGainRound(NRounds))

\* a decreasing round between two rounds without gain: no stop
C11_Witness ==
    /\ NegEnded /\ NRounds = 3 /\ neg.reason = "max_rounds_exceeded"
    /\ NoGainRound(1) /\ NoGainRound(3)
    /\ neg.rounds[2].confidence_after < neg.rounds[2].confidence_before
    /\ neg.no_gain_count = 1

\* ---------------------------------------------------------------- C12
\* C12: clarify_until_confident called for a move without a clarification
\* action in its uncertain block fails with the E200 error before any
\* ask_user call and any re-match, for every max_rounds.
C12_FailsFast ==
    (~neg.has_clarify /\ neg.pc # "loop") =>
        /\ neg.pc = "error"
        /\ neg.asks = 0 /\ neg.rematches = 0

\* ================================================== dialogue (SpecDlg)
\* firewall.sanitize: injection patterns removed, result stripped
Sanitize(text) == IF text = "ignore previous instructions" THEN "" ELSE text

\* str.lower()
Lower(str) ==
    CASE str = "I'm in pain" -> "i'm in pain"
      [] str = "My chest" -> "my chest"
      [] str = "About an hour ago" -> "about an hour ago"
      [] OTHER -> str

\* re.search(r'-?\d+\.?\d*', str): the first number of the string
NoNumber == -1
NumberIn(str) ==
    CASE str \in {"8 out of 10", "8.0"} -> 8
      [] str \in {"15", "15.0"} -> 15
      [] OTHER -> NoNumber

\* float(match.group()) as stored (json.dumps of a float)
NumStr(n) == IF n = 8 THEN "8.0" ELSE "15.0"

\* a in b for lower-cased strings; over Texts and the enum values no string
\* properly contains another
Contains(hay, needle) == hay = needle

\* RegexSlotExtractor._extract_number (number and range slots)
ExtractNumber(text, def) ==
    LET n == NumberIn(text)
    IN IF n = NoNumber THEN NoValue
       ELSE IF def.type = "range" /\ (n < def.min \/ n > def.max) THEN NoValue
       ELSE NumStr(n)

\* RegexSlotExtractor._extract_enum
ExtractEnum(text, def) ==
    IF def.enum_values = {} THEN text
    ELSE IF \E v \in def.enum_values : Lower(v) = Lower(text)
         THEN CHOOSE v \in def.enum_values : Lower(v) = Lower(text)
    ELSE IF \E v \in def.enum_values : Contains(Lower(text), Lower(v)) \/ Contains(Lower(v), Lower(text))
         THEN CHOOSE v \in def.enum_values : Contains(Lower(text), Lower(v)) \/ Contains(Lower(v), Lower(text))
    ELSE NoValue

\* RegexSlotExtractor._extract_timeframe: no text holds "<digits> hour|day|
\* week|month|year", so the phrase test or the final accept-anything return
\* yields the stripped text
ExtractTimeframe(text) == text

\* SlotManager.extract_slot_from_input with the regex strategy
extract_slot_from_input(cleaned, def) ==
    IF cleaned = "" THEN NoValue
    ELSE CASE def.type \in {"number", "range"} -> ExtractNumber(cleaned, def)
           [] def.type = "enum" -> ExtractEnum(cleaned, def)
           [] def.type = "timeframe" -> ExtractTimeframe(cleaned)
           [] OTHER -> cleaned

\* validate_slot_value, timeframe: a unit pattern ("an hour") or a phrase
\* ("ago") occurs in the lower-cased value
TimeframeValid(lowered) == lowered \in {"about an hour ago"}

Invalid == [ok |-> FALSE, coerced |-> NoValue]

\* validate_slot_value, enum: direct match, then partial match, else invalid
ValidateEnum(def, value) ==
    IF \E v \in def.enum_values : Lower(value) = Lower(v)
    THEN [ok |-> TRUE, coerced |-> CHOOSE v \in def.enum_values : Lower(value) = Lower(v)]
    ELSE IF \E v \in def.enum_values : Contains(Lower(v), Lower(value)) \/ Contains(Lower(value), Lower(v))
         THEN [ok |-> TRUE, coerced |-> CHOOSE v \in def.enum_values :
                                           Contains(Lower(v), Lower(value)) \/ Contains(Lower(value), Lower(v))]
    ELSE Invalid

\* SlotManager.validate_slot_value
validate_slot_value(def, value) ==
    CASE def.type = "string" -> [ok |-> TRUE, coerced |-> value]
      [] def.type = "range" ->
            LET n == NumberIn(value)
            IN IF n # NoNumber /\ def.min <= n /\ n <= def.max
               THEN [ok |-> TRUE, coerced |-> NumStr(n)]
               ELSE Invalid
      [] def.type = "enum" -> ValidateEnum(def, value)
      [] def.type = "timeframe" ->
            IF TimeframeValid(Lower(value))
            THEN [ok |-> TRUE, coerced |-> Lower(value)]
            ELSE Invalid
      [] OTHER -> [ok |-> TRUE, coerced |-> value]

\* any awaited slot of the move lets every unfilled slot read the utterance
ExtractsFromInput_m(awaiting_specific_slot, slot_name) == awaiting_specific_slot # NoValue

\* Priority 2: elif awaiting_specific_slot == slot_name
ExtractsFromInput(awaiting_specific_slot, slot_name) == awaiting_specific_slot = slot_name

\* the raw value the fill loop finds for one slot
RawSlotValue(slot_name, params, awaiting_specific_slot, cleaned) ==
    IF params[slot_name] # NoValue THEN params[slot_name]
    ELSE IF ExtractsFromInput(awaiting_specific_slot, slot_name)
         THEN extract_slot_from_input(cleaned, SlotDef(slot_name))
    ELSE NoValue

\* a value that failed validation stored as it came
StoredValue_m(def, value) ==
    IF value = NoValue THEN NoValue
    ELSE IF validate_slot_value(def, value).ok THEN validate_slot_value(def, value).coerced
    ELSE value

\* if value is not None: validate; if is_valid: fill_slot(coerced)
StoredValue(def, value) ==
    IF value = NoValue THEN NoValue
    ELSE IF validate_slot_value(def, value).ok THEN validate_slot_value(def, value).coerced
    ELSE NoValue

\* the loop "for slot_name, slot_def in mv['slots'].items()": slots table
\* after it
FillSlots(slots, m, params, awaiting_specific_slot, cleaned) ==
    [k \in SlotKeys |->
        IF k[1] = m /\ slots[k] = NoValue
        THEN StoredValue(SlotDef(k[2]), RawSlotValue(k[2], params, awaiting_specific_slot, cleaned))
        ELSE slots[k]]

\* optional slots counted as missing too
get_missing_slots_m(slots, m) ==
    SelectSeq(SlotOrder(m), LAMBDA s : slots[<<m, s>>] = NoValue)

\* SlotManager.get_missing_slots: required, not filled, no default
get_missing_slots(slots, m) ==
    SelectSeq(SlotOrder(m), LAMBDA s : /\ SlotDef(s).required
                                       /\ slots[<<m, s>>] = NoValue
                                       /\ SlotDef(s).default = NoValue)

\* mv["slot_prompts"].get(slot_name, f"Please provide {slot_name}")
SlotPrompt(slot_name) ==
    IF slot_name = "location" THEN "Where does it hurt?"
    ELSE IF slot_name = "severity" THEN "Please provide severity"
    ELSE IF slot_name = "onset" THEN "Please provide onset"
    ELSE IF slot_name = "color" THEN "Please provide color"
    ELSE "Please provide kind"

\* clear_slots is called inside 'if "all_slots_filled" in slot_conditions'
ClearsSlots(m) == HasAllSlotsFilled(m)

\* SlotManager.clear_slots
clear_slots(slots, m) == [k \in SlotKeys |-> IF k[1] = m THEN NoValue ELSE slots[k]]

\* eval_condition on the special conditions
eval_condition(cond, score, threshold, last_status) ==
    CASE cond = "confident" -> score >= threshold
      [] cond = "uncertain" -> score < threshold
      [] cond = "successful" -> last_status = "ok"
      [] cond = "failed" -> last_status = "err"
      [] OTHER -> FALSE

\* block loop with the single-branch guarantee: actions of the first block
\* whose condition holds
RECURSIVE BranchActions(_, _, _, _)
BranchActions(blocks, score, threshold, last_status) ==
    IF blocks = <<>> THEN <<>>
    ELSE IF eval_condition(Head(blocks).cond, score, threshold, last_status)
         THEN Head(blocks).actions
    ELSE BranchActions(Tail(blocks), score, threshold, last_status)

\* LGDLRuntime._has_clarify
HasClarify(m) ==
    \E i \in 1..Len(Blocks(m)) :
        /\ Blocks(m)[i].cond = "uncertain"
        /\ \E j \in 1..Len(Blocks(m)[i].actions) : Blocks(m)[i].actions[j] = "ask_clarification"

\* the marker of a slot prompt left in memory only
PersistMarker_m(row, state) == row

\* save_conversation(state) in the slot-prompt return: the marker columns
PersistMarker(row, state) ==
    [row EXCEPT !.awaiting_slot_for_move = state.awaiting_slot_for_move,
                !.awaiting_slot_name = state.awaiting_slot_name]

\* get_or_create: the cached object, else the state loaded from the store
LoadedState(d) == IF d.cached THEN d.state ELSE d.row

NoNegotiation == [ran |-> FALSE, success |-> FALSE, reason |-> "none", rounds |-> <<>>]

NegotiationManifest(n) ==
    [ran |-> TRUE, success |-> n.success, reason |-> n.reason, rounds |-> n.rounds]

\* params.update(slot_values): get_slot_values returns the stored values of
\* the move and nothing else
ParamsWithSlots(params, slots, m) ==
    [s \in AllSlotNames |->
        IF s \in SlotNames(m) /\ slots[<<m, s>>] # NoValue THEN slots[<<m, s>>] ELSE params[s]]

\* the turn from slot filling to its return, for routed move m
RestOfTurn(d, st, m, score, params, cleaned, route, mcalls, params0, negm) ==
    LET awaiting_specific_slot ==
            IF st.awaiting_slot_for_move = m THEN st.awaiting_slot_name ELSE NoValue
        hasSlots == SlotOrder(m) # <<>>
        filled == IF hasSlots THEN FillSlots(d.slots, m, params, awaiting_specific_slot, cleaned)
                  ELSE d.slots
        missing == get_missing_slots(filled, m)
        base == [move_id |-> m, confidence |-> score, route |-> route,
                 matcher_calls |-> mcalls, params0 |-> params0, negotiation |-> negm]
    IN IF hasSlots /\ missing # <<>>
       THEN \* prompt for the first missing slot, set and save the marker
            LET st1 == [awaiting_slot_for_move |-> m, awaiting_slot_name |-> missing[1]]
            IN [d EXCEPT !.pc = "idle", !.state = st1, !.row = PersistMarker(d.row, st1),
                         !.cached = TRUE, !.slots = filled,
                         !.mv = m, !.score = score, !.params = params, !.cleaned = cleaned,
                         !.result = base @@ [response |-> SlotPrompt(missing[1]),
                                             awaiting_slot |-> missing[1],
                                             executed |-> <<>>, params |-> NoParams]]
       ELSE \* all required slots filled (or no slots): actions, blocks, update
            LET st1 == IF hasSlots
                       THEN [awaiting_slot_for_move |-> NoMove, awaiting_slot_name |-> NoValue]
                       ELSE st
                slotActs == IF hasSlots /\ HasAllSlotsFilled(m)
                            THEN AllSlotsFilledActions(m) ELSE <<>>
                slots1 == IF hasSlots /\ ClearsSlots(m) THEN clear_slots(filled, m) ELSE filled
                acts == slotActs \o BranchActions(Blocks(m), score, Threshold(m), "ok")
            IN [d EXCEPT !.pc = "idle", !.state = st1, !.row = PersistMarker(d.row, st1),
                         !.cached = TRUE, !.slots = slots1,
                         !.mv = m, !.score = score, !.params = params, !.cleaned = cleaned,
                         !.result = base @@ [response |-> IF acts = <<>> THEN "OK." ELSE "rendered",
                                             awaiting_slot |-> NoValue,
                                             executed |-> acts,
                                             params |-> IF hasSlots
                                                        THEN ParamsWithSlots(params, filled, m)
                                                        ELSE params]]

\* the scripted dialogue of test_pain_dialog, followed so far
ScriptText == <<"I'm in pain", "My chest", "8 out of 10", "About an hour ago">>
ScriptOff == 9
ScriptNext(k, text, ok) ==
    IF k < Len(ScriptText) /\ text = ScriptText[k + 1] /\ ok THEN k + 1 ELSE ScriptOff

\* a turn on a conversation that awaits a slot: routed to the awaiting move
\* at score 1.0, no matcher call
DlgRouteAwaiting(text) ==
    /\ dlg.pc = "idle"
    /\ LoadedState(dlg).awaiting_slot_for_move # NoMove
    /\ LET st == LoadedState(dlg)
           d0 == [dlg EXCEPT !.text = text, !.script = ScriptNext(@, text, @ >= 1)]
       IN dlg' = RestOfTurn(d0, st, st.awaiting_slot_for_move, 100, NoParams, Sanitize(text),
                            "awaiting", 0, NoParams, NoNegotiation)
    /\ UNCHANGED <<tasks, nsub, heap, ephemeral_cache, state_lock, conversations, turns,
                   writeLog, completed, neg, moreVars>>

\* a turn on a conversation that awaits no slot: matcher outcome mo
DlgMatch(text, mo) ==
    /\ dlg.pc = "idle"
    /\ LoadedState(dlg).awaiting_slot_for_move = NoMove
    /\ LET st == LoadedState(dlg)
           d0 == [dlg EXCEPT !.text = text, !.state = st, !.cached = TRUE,
                             !.script = ScriptNext(@, text,
                                 @ = 0 /\ mo.move = "pain_assessment" /\ mo.params = NoParams)]
       IN IF mo.move = NoMove
          THEN /\ dlg' = [d0 EXCEPT !.mv = NoMove, !.score = 0, !.params = NoParams,
                                    !.cleaned = Sanitize(text),
                                    !.result = [NoResult EXCEPT !.response = "Sorry, I didn't catch that.",
                                                                !.route = "matcher",
                                                                !.matcher_calls = 1]]
               /\ UNCHANGED neg
          ELSE IF mo.score < Threshold(mo.move) /\ HasClarify(mo.move)
               THEN /\ dlg' = [d0 EXCEPT !.pc = "negotiating", !.mv = mo.move, !.score = mo.score,
                                         !.params = mo.params, !.cleaned = Sanitize(text),
                                         !.result = NoResult]
                    /\ neg' = NegStart(DlgMaxRounds, Threshold(mo.move), mo.score, TRUE)
               ELSE /\ dlg' = RestOfTurn(d0, st, mo.move, mo.score, mo.params, Sanitize(text),
                                         "matcher", 1, mo.params, NoNegotiation)
                    /\ UNCHANGED neg
    /\ UNCHANGED <<tasks, nsub, heap, ephemeral_cache, state_lock, conversations, turns,
                   writeLog, completed, moreVars>>

\* a failed negotiation continuing into execution
ShortCircuits_m(n) == FALSE

\* if negotiation_result.success: ... else: early return with the apology
ShortCircuits(n) == ~n.success

\* the score of the first match kept after a successful negotiation
ScoreAfterNegotiation_m(score, n) == score

\* score = negotiation_result.final_confidence
ScoreAfterNegotiation(score, n) == n.final_confidence

\* clarify_until_confident has returned (or raised E200) inside the turn
DlgNegotiated ==
    /\ dlg.pc = "negotiating"
    /\ neg.pc \in {"done", "error"}
    /\ neg' = NegIdle
    /\ IF neg.pc = "error"
       THEN dlg' = RestOfTurn(dlg, dlg.state, dlg.mv, dlg.score, dlg.params, dlg.cleaned,
                              "matcher", 1, dlg.params, NoNegotiation)
       ELSE IF ShortCircuits(neg)
            THEN dlg' = [dlg EXCEPT !.pc = "idle", !.score = neg.final_confidence,
                            !.result = [NoResult EXCEPT !.move_id = dlg.mv,
                                            !.confidence = neg.final_confidence,
                                            !.response = "I wasn't able to understand",
                                            !.route = "matcher",
                                            !.matcher_calls = 1 + neg.rematches,
                                            !.params0 = dlg.params,
                                            !.negotiation = NegotiationManifest(neg)]]
            ELSE dlg' = RestOfTurn(dlg, dlg.state, dlg.mv, ScoreAfterNegotiation(dlg.score, neg), dlg.params,
                                   dlg.cleaned, "matcher", 1 + neg.rematches, dlg.params,
                                   NegotiationManifest(neg))
    /\ UNCHANGED <<tasks, nsub, heap, ephemeral_cache, state_lock, conversations, turns,
                   writeLog, completed, moreVars>>

\* the TTL of the cached PersistentState runs out between two turns
DlgExpire ==
    /\ dlg.pc = "idle"
    /\ dlg.cached
    /\ dlg' = [dlg EXCEPT !.cached = FALSE]
    /\ UNCHANGED <<tasks, nsub, heap, ephemeral_cache, state_lock, conversations, turns,
                   writeLog, completed, neg, moreVars>>

NextDlg ==
    \/ \E text \in Texts : DlgRouteAwaiting(text)
    \/ \E text \in Texts, mo \in MatchOutcomes : DlgMatch(text, mo)
    \/ NegLoop
    \/ \E score \in DlgScores : NegAnswer(score)
    \/ DlgNegotiated
    \/ DlgExpire

SpecDlg == Init /\ [][NextDlg]_vars

\* ------------------------------------------------- claims on SpecDlg
\* a turn has returned
TurnDone == dlg.pc = "idle" /\ dlg.result.route # "none"
Apology == "I wasn't able to understand"
PainSlot(s) == dlg.slots[<<"pain_assessment", s>>]

\* C13: when the negotiation of a turn fails (no_information_gain or
\* max_rounds_exceeded) the turn returns the apology response and has
\* executed no action of the move.
C13_FailureShortCircuits ==
    (TurnDone /\ dlg.result.negotiation.ran /\ ~dlg.result.negotiation.success) =>
        /\ dlg.result.negotiation.reason \in {"no_information_gain", "max_rounds_exceeded"}
        /\ dlg.result.response = Apology
        /\ dlg.result.executed = <<>>

C13_Witness ==
    /\ TurnDone /\ dlg.result.negotiation.ran
    /\ dlg.result.negotiation.reason = "max_rounds_exceeded"
    /\ Len(dlg.result.negotiation.rounds) = DlgMaxRounds
    /\ dlg.result.response = Apology

\* the negotiation of the scenario: threshold 0.85, first match 0.65, one
\* clarifying answer, re-match 0.88
OneAnswerTo88 ==
    /\ TurnDone /\ dlg.result.negotiation.ran
    /\ Threshold(dlg.result.move_id) = 85
    /\ dlg.result.negotiation.rounds =
         <<[round_num |-> 1, confidence_before |-> 65, confidence_after |-> 88]>>

\* C14: threshold 0.85, initial confidence 0.65, one clarifying answer raises
\* the re-matched confidence to 0.88: the turn executes the confident branch
\* of the move, not the uncertain (clarification) branch nor the apology.
C14_ConfidentBranch ==
    OneAnswerTo88 =>
        /\ dlg.result.executed = <<"capability:check_availability", "respond:booked">>
        /\ dlg.result.response # Apology
        /\ dlg.result.confidence = 88

C14_Witness == OneAnswerTo88 /\ dlg.result.move_id = "appointment_request"
               /\ dlg.result.executed # <<>>

Prompting == dlg.pc = "idle" /\ dlg.result.awaiting_slot # NoValue

\* a step that is a whole turn (get_or_create leaves the state cached)
TurnStep == dlg' # dlg /\ dlg'.pc = "idle" /\ dlg'.cached

\* C16: after a turn that ends with a slot prompt for move m the awaiting
\* marker is persisted, and the next turn of the conversation is routed to m
\* at confidence 1.0 without a matcher call, whatever its text.
C16_AwaitingRoute ==
    /\ [](Prompting =>
            /\ dlg.row.awaiting_slot_for_move = dlg.result.move_id
            /\ dlg.row.awaiting_slot_name = dlg.result.awaiting_slot)
    /\ [][(Prompting /\ dlg' # dlg /\ dlg'.cached) =>
            /\ dlg'.pc = "idle"
            /\ dlg'.result.route = "awaiting"
            /\ dlg'.result.move_id = dlg.result.move_id
            /\ dlg'.result.confidence = 100
            /\ dlg'.result.matcher_calls = 0]_vars

\* a turn routed by the marker although its text was sanitized to nothing
C16_Witness ==
    /\ TurnDone /\ dlg.result.route = "awaiting" /\ dlg.result.awaiting_slot = "onset"
    /\ dlg.text = "ignore previous instructions"

\* the reply text gives no valid value for slot s
ReplyFails(text, s) ==
    LET raw == extract_slot_from_input(Sanitize(text), SlotDef(s))
    IN raw = NoValue \/ ~validate_slot_value(SlotDef(s), raw).ok

\* C17: while the conversation awaits slot s of move m, a reply from which
\* extraction fails or whose value fails validation stores nothing for s; the
\* turn answers with the same prompt for s and keeps the marker on (m, s).
C17_FailedReply ==
    [][\A k \in SlotKeys :
          (/\ dlg.pc = "idle"
           /\ LoadedState(dlg).awaiting_slot_for_move = k[1]
           /\ LoadedState(dlg).awaiting_slot_name = k[2]
           /\ TurnStep
           /\ ReplyFails(dlg'.text, k[2])) =>
              /\ dlg'.slots[k] = NoValue
              /\ dlg'.result.response = SlotPrompt(k[2])
              /\ dlg'.result.response = dlg.result.response
              /\ dlg'.result.awaiting_slot = k[2]
              /\ dlg'.state = [awaiting_slot_for_move |-> k[1], awaiting_slot_name |-> k[2]]
              /\ dlg'.row = dlg'.state]_vars

\* "later" is extracted as a timeframe and fails validation: onset asked again
C17_Witness ==
    /\ TurnDone /\ dlg.result.route = "awaiting" /\ dlg.text = "later"
    /\ dlg.result.awaiting_slot = "onset" /\ PainSlot("onset") = NoValue
    /\ PainSlot("severity") = "8.0"

AllSlotsFound ==
    /\ TurnDone
    /\ dlg.result.move_id \in MoveIds
    /\ SlotOrder(dlg.result.move_id) # <<>>
    /\ dlg.result.awaiting_slot = NoValue

\* C19: whenever a turn finds all required slots of a slot-declaring move
\* filled, the slot values stored for that move are cleared by the end of the
\* turn.
C19_SlotsCleared ==
    AllSlotsFound =>
        \A s \in SlotNames(dlg.result.move_id) : dlg.slots[<<dlg.result.move_id, s>>] = NoValue

\* C20: an enum slot with an empty enum-value list accepts the raw input, so a
\* (non-empty) reply to the prompt of such a slot fills the slot and the turn
\* does not ask for it again.
C20_EmptyEnumAccepts ==
    (/\ TurnDone /\ dlg.result.route = "awaiting"
     /\ dlg.result.move_id = "empty_enum_test"
     /\ dlg.cleaned # "") =>
        /\ dlg.result.awaiting_slot # "kind"
        /\ dlg.result.executed # <<>>

\* ------------------------------------------------------ CascadeMatcher
PyMin(a, b) == IF a < b THEN a ELSE b
PyMax(a, b) == IF a > b THEN a ELSE b

\* token_overlap: 0.0 when one side has no token, else min(1.0, 0.4 + 0.1 * |common|)
token_overlap(common) == IF common < 0 THEN 0 ELSE PyMin(100, 40 + 10 * common)

\* cosine: max(0.0, min(1.0, dot / (na * nb)))
cosine(raw) == PyMax(0, PyMin(100, raw))

\* CascadeMatcher._lexical_match: 0.85 when a regex of the move matches
lexical_match(p) == IF p.lex THEN 85 ELSE 0

\* CascadeMatcher._embedding_match: best starts at 0.0 and is replaced by a
\* larger confidence
embedding_match(p, cfg) ==
    LET confidence == IF cfg.emb_enabled
                      THEN PyMin(100, 40 + (60 * cosine(p.cos)) \div 100)
                      ELSE token_overlap(p.common)
    IN IF confidence > 0 THEN confidence ELSE 0

\* the LLM call without the except clause
LLMSemanticMatch_m(p) == [raised |-> p.llm_fails, confidence |-> p.llm]

\* LLMSemanticMatcher.match: the confidence of the JSON, 0.0 when the call raised
LLMSemanticMatch(p) ==
    IF p.llm_fails THEN [raised |-> FALSE, confidence |-> 0]
    ELSE [raised |-> FALSE, confidence |-> p.llm]

\* CascadeMatcher._llm_match: best starts at 0.0
llm_match(r) == IF r.confidence > 0 THEN r.confidence ELSE 0

\* the skip threshold and the early exit of the LLM stage
LlmThreshold == 85
LlmEarlyExit == 90

\* the first loop of CascadeMatcher.match from move i on: lexical, then
\* embedding, each returning at once when its threshold is met
RECURSIVE ScanMoves(_, _, _, _, _)
ScanMoves(game, cfg, i, best, embc) ==
    IF i > Len(game) THEN [returned |-> FALSE, cand |-> best, emb_calls |-> embc]
    ELSE LET lex_conf == lexical_match(game[i])
         IN IF lex_conf >= cfg.cascade_lexical_threshold
            THEN [returned |-> TRUE, emb_calls |-> embc,
                  cand |-> [move |-> i, score |-> lex_conf, stage |-> "lexical"]]
            ELSE LET emb_conf == embedding_match(game[i], cfg)
                     embc1 == embc + (IF cfg.emb_enabled THEN 1 ELSE 0)
                 IN IF emb_conf >= cfg.cascade_embedding_threshold
                    THEN [returned |-> TRUE, emb_calls |-> embc1,
                          cand |-> [move |-> i, score |-> emb_conf, stage |-> "embedding"]]
                    ELSE LET best_conf == PyMax(lex_conf, emb_conf)
                             nb == IF best.move = 0 \/ best_conf > best.score
                                   THEN [move |-> i, score |-> best_conf,
                                         stage |-> IF emb_conf > lex_conf THEN "embedding"
                                                   ELSE "lexical"]
                                   ELSE best
                         IN ScanMoves(game, cfg, i + 1, nb, embc1)

\* match(text, compiled_game, context) up to its first LLM call or its return
CascStart(game, cfg) ==
    /\ casc.pc = "idle"
    /\ LET sc == ScanMoves(game, cfg, 1, NoCand, 0)
           c0 == [casc EXCEPT !.game = game, !.config = cfg, !.emb_calls = sc.emb_calls,
                              !.best_overall = sc.cand, !.scanned = sc.cand]
       IN IF sc.returned
          THEN casc' = [c0 EXCEPT !.pc = "done", !.result = sc.cand]
          ELSE IF /\ cfg.llm_matcher /\ cfg.context
                  /\ (sc.cand.move = 0 \/ sc.cand.score < LlmThreshold)
                  /\ Len(game) > 0
               THEN casc' = [c0 EXCEPT !.pc = "llm", !.i = 1]
               ELSE casc' = [c0 EXCEPT !.pc = "done", !.result = sc.cand]
    /\ UNCHANGED <<coreVars, rt, pt, ttl, del, emb, lrn, enr>>

\* one LLM call of the second loop returns, and the code up to the next call
\* or the return
CascLLM ==
    /\ casc.pc = "llm"
    /\ LET r == LLMSemanticMatch(casc.game[casc.i])
           llm_conf == llm_match(r)
           better == llm_conf > casc.best_overall.score
           nb == IF better THEN [move |-> casc.i, score |-> llm_conf, stage |-> "llm_semantic"]
                 ELSE casc.best_overall
           c1 == [casc EXCEPT !.llm_calls = @ + 1, !.llm_confs = Append(@, llm_conf),
                              !.llm_failures = @ + (IF casc.game[casc.i].llm_fails THEN 1 ELSE 0)]
       IN IF r.raised
          THEN casc' = [c1 EXCEPT !.pc = "raised"]
          ELSE IF (better /\ llm_conf >= LlmEarlyExit) \/ casc.i = Len(casc.game)
               THEN casc' = [c1 EXCEPT !.pc = "done", !.best_overall = nb, !.result = nb]
               ELSE casc' = [c1 EXCEPT !.best_overall = nb, !.i = @ + 1]
    /\ UNCHANGED <<coreVars, rt, pt, ttl, del, emb, lrn, enr>>

NextCasc ==
    \/ \E game \in Games, cfg \in CascConfigs : CascStart(game, cfg)
    \/ CascLLM

SpecCasc == Init /\ [][NextCasc]_vars

\* ------------------------------------------------ claims on SpecCasc
\* the score of move i after the lexical and the embedding stage
CandScore(i) ==
    PyMax(lexical_match(casc.game[i]), embedding_match(casc.game[i], casc.config))

\* some move of the game matches lexically at or above the lexical threshold
LexicalHit(i) == lexical_match(casc.game[i]) >= casc.config.cascade_lexical_threshold

\* C21: for every input and every confidence the embedding stage and the LLM
\* stage return, the score of the result of CascadeMatcher.match lies in [0, 1].
C21_ScoreInUnitInterval ==
    casc.pc = "done" => casc.result.score \in 0..100

\* C22: when some move matches lexically with confidence >= lexical_threshold,
\* match returns that match with stage lexical, and no embedding computation
\* and no LLM call occurs during the call, wherever the move stands in the game.
C22_LexicalShortCircuit ==
    (casc.pc = "done" /\ \E i \in 1..Len(casc.game) : LexicalHit(i)) =>
        /\ casc.result.stage = "lexical"
        /\ casc.result.move # 0 /\ LexicalHit(casc.result.move)
        /\ casc.emb_calls = 0
        /\ casc.llm_calls = 0

\* C23: match returns the move with the highest score over all moves of the
\* game, and among several moves with the highest score the first in game
\* order (stated for the calls that make no LLM call).
C23_HighestScoreFirst ==
    (casc.pc = "done" /\ casc.llm_calls = 0 /\ Len(casc.game) > 0) =>
        /\ casc.result.move # 0
        /\ \A j \in 1..Len(casc.game) : CandScore(j) <= CandScore(casc.result.move)
        /\ \A j \in 1..(casc.result.move - 1) : CandScore(j) < CandScore(casc.result.move)

\* C24: when LLM calls fail, match does not raise, a failed call contributes
\* confidence 0 for its pattern, and when every LLM call of the match failed
\* the result is the best lexical/embedding candidate.
C24_LLMFailureDegrades ==
    /\ casc.pc # "raised"
    /\ \A k \in 1..Len(casc.llm_confs) : casc.game[k].llm_fails => casc.llm_confs[k] = 0
    /\ (casc.pc = "done" /\ casc.llm_calls > 0 /\ casc.llm_failures = casc.llm_calls) =>
            /\ casc.result = casc.scanned
            /\ casc.result.stage \in {"lexical", "embedding"}

\* a match whose LLM calls all failed and that returned a candidate
C24_Witness ==
    /\ casc.pc = "done"
    /\ casc.llm_calls = Len(casc.game)
    /\ casc.llm_failures = casc.llm_calls
    /\ casc.llm_calls > 1
    /\ casc.result.move # 0

\* ------------------------------------------- LGDLRuntime construction
\* 'not config.openai_api_key'
HasKey(key) == key \notin {NoKey, ""}

\* create_llm_client(api_key, model, allow_mock_fallback=False)
create_llm_client(key, openai_available) ==
    IF key \in {"test", "test-key", "sk-test"} THEN [error |-> "none", client |-> "mock"]
    ELSE IF ~HasKey(key) THEN [error |-> "ValueError", client |-> "none"]
    ELSE IF ~openai_available THEN [error |-> "ImportError", client |-> "none"]
    ELSE [error |-> "none", client |-> "openai"]

\* CascadeMatcher.__init__
CascadeMatcherInit(cfg, openai_available) ==
    IF cfg.enable_llm_semantic_matching
    THEN IF ~HasKey(cfg.openai_api_key) THEN [error |-> "ValueError", client |-> "none"]
         ELSE create_llm_client(cfg.openai_api_key, openai_available)
    ELSE [error |-> "none", client |-> "none"]

\* SlotExtractionEngine.__init__
SlotExtractionEngineInit(cfg, openai_available) ==
    IF cfg.enable_semantic_slot_extraction
    THEN IF ~HasKey(cfg.openai_api_key) THEN [error |-> "ValueError", client |-> "none"]
         ELSE create_llm_client(cfg.openai_api_key, openai_available)
    ELSE [error |-> "none", client |-> "none"]

\* LGDLRuntime.__init__(compiled, capability_contract_path, state_manager, config)
RtConstruct(cfg, state_manager, openai_available, contract) ==
    /\ rt.pc = "idle"
    /\ LET r0 == [rt EXCEPT !.config = cfg, !.state_manager = state_manager,
                              !.openai_available = openai_available]
           m == IF cfg.enable_llm_semantic_matching
                THEN CascadeMatcherInit(cfg, openai_available)
                ELSE [error |-> "none", client |-> "none"]
           sl == IF state_manager THEN SlotExtractionEngineInit(cfg, openai_available)
                 ELSE [error |-> "none", client |-> "none"]
       IN IF m.error # "none"
          THEN rt' = [r0 EXCEPT !.pc = "failed", !.error = m.error]
          ELSE IF sl.error # "none"
          THEN rt' = [r0 EXCEPT !.pc = "failed", !.error = sl.error]
          ELSE rt' = [r0 EXCEPT !.pc = "ready",
                          !.matcher = IF cfg.enable_llm_semantic_matching THEN "cascade"
                                      ELSE "two_stage",
                          !.llm_matcher = m.client, !.cap = contract,
                          !.slot_manager = state_manager, !.semantic = sl.client]
    /\ UNCHANGED <<coreVars, casc, pt, ttl, del, emb, lrn, enr>>

\* SlotExtractionEngine.extract_slot: the extractor a strategy is routed to
RtExtractSlot(strategy) ==
    /\ rt.pc = "ready"
    /\ rt.slot_manager
    /\ rt' = [rt EXCEPT !.extractor =
                 IF strategy = "semantic" /\ rt.semantic # "none" THEN "semantic"
                 ELSE IF strategy = "hybrid" /\ rt.semantic # "none" THEN "hybrid"
                 ELSE "regex"]
    /\ UNCHANGED <<coreVars, casc, pt, ttl, del, emb, lrn, enr>>

NextRt ==
    \/ \E cfg \in RtConfigs, sm \in BOOLEAN, av \in BOOLEAN, contract \in BOOLEAN :
           RtConstruct(cfg, sm, av, contract)
    \/ \E strategy \in Strategies : RtExtractSlot(strategy)

SpecRt == Init /\ [][NextRt]_vars

\* C25: whenever LLM semantic matching or semantic slot extraction is enabled
\* and no credentials are supplied, constructing the runtime fails; it never
\* ends with a usable runtime (a mock client or the non-LLM path).
C25_NoCredentialsFatal ==
    (/\ rt.pc # "idle"
     /\ rt.config.enable_llm_semantic_matching \/ rt.config.enable_semantic_slot_extraction
     /\ ~HasKey(rt.config.openai_api_key)) =>
        rt.pc = "failed"

\* ------------------------------- process_turn under each configuration
\* the runtime is constructed: matcher kind, test mode, the game's clarify data
PtConfigure(cfg) ==
    /\ pt.pc = "idle"
    /\ pt' = [pt EXCEPT !.pc = "ready", !.use_cascade = cfg.use_cascade,
                        !.test_mode = cfg.test_mode, !.options = cfg.options]
    /\ UNCHANGED <<coreVars, casc, rt, ttl, del, emb, lrn, enr>>

\* a turn on a conversation that awaits a slot.  With the cascade matcher the
\* result is completed by result["stage"] = match_stage, a local bound only in
\* the matching branch: the turn that reaches it raises UnboundLocalError,
\* after the slot writes and before update() and the save
PtRouteAwaiting(text) ==
    /\ pt.pc = "ready"
    /\ dlg.pc = "idle"
    /\ LoadedState(dlg).awaiting_slot_for_move # NoMove
    /\ LET st == LoadedState(dlg)
           d0 == [dlg EXCEPT !.text = text, !.script = ScriptNext(@, text, @ >= 1)]
           d1 == RestOfTurn(d0, st, st.awaiting_slot_for_move, 100, NoParams, Sanitize(text),
                            "awaiting", 0, NoParams, NoNegotiation)
       IN IF pt.use_cascade /\ d1.result.awaiting_slot = NoValue
          THEN /\ dlg' = [d1 EXCEPT !.row = dlg.row, !.result = NoResult]
               /\ pt' = [pt EXCEPT !.faults = @ \cup {"UnboundLocalError"}]
          ELSE /\ dlg' = d1
               /\ UNCHANGED pt
    /\ UNCHANGED <<tasks, nsub, heap, ephemeral_cache, state_lock, conversations, turns,
                   writeLog, completed, neg, casc, rt, ttl, del, emb, lrn, enr>>

\* a turn on a conversation that awaits no slot
PtMatch(text, mo) == pt.pc = "ready" /\ DlgMatch(text, mo)

\* _prompt_user: marks the conversation as awaiting a response, returns the
\* first option in test mode and raises NotImplementedError otherwise;
\* process_turn catches LGDLRuntimeError only
PtAskFails ==
    /\ pt.pc = "ready"
    /\ dlg.pc = "negotiating"
    /\ neg.pc = "asking"
    /\ ~(pt.test_mode /\ pt.options)
    /\ neg' = NegIdle
    /\ dlg' = [dlg EXCEPT !.pc = "idle", !.result = NoResult]
    /\ pt' = [pt EXCEPT !.awaiting_response = TRUE,
                        !.faults = @ \cup {"NotImplementedError"}]
    /\ UNCHANGED <<tasks, nsub, heap, ephemeral_cache, state_lock, conversations, turns,
                   writeLog, completed, casc, rt, ttl, del, emb, lrn, enr>>

\* ask_user has answered; new_match = matcher.match(enriched_input,
\* compiled_game) is not awaited, so with the cascade matcher new_match is a
\* coroutine and new_match["score"] raises TypeError
PtRematchFails ==
    /\ pt.pc = "ready"
    /\ dlg.pc = "negotiating"
    /\ neg.pc = "asking"
    /\ pt.test_mode /\ pt.options
    /\ pt.use_cascade
    /\ neg' = NegIdle
    /\ dlg' = [dlg EXCEPT !.pc = "idle", !.result = NoResult]
    /\ pt' = [pt EXCEPT !.awaiting_response = TRUE, !.faults = @ \cup {"TypeError"}]
    /\ UNCHANGED <<tasks, nsub, heap, ephemeral_cache, state_lock, conversations, turns,
                   writeLog, completed, casc, rt, ttl, del, emb, lrn, enr>>

\* ask_user has answered and the two-stage matcher has re-matched
PtAnswer(score) ==
    /\ pt.pc = "ready"
    /\ pt.test_mode /\ pt.options
    /\ ~pt.use_cascade
    /\ NegAnswer(score)

NextPt ==
    \/ \E cfg \in PtConfigs : PtConfigure(cfg)
    \/ \E text \in Texts : PtRouteAwaiting(text)
    \/ \E text \in Texts, mo \in MatchOutcomes : PtMatch(text, mo)
    \/ pt.pc = "ready" /\ NegLoop
    \/ \E score \in DlgScores : PtAnswer(score)
    \/ PtAskFails
    \/ PtRematchFails
    \/ pt.pc = "ready" /\ DlgNegotiated
    \/ pt.pc = "ready" /\ DlgExpire

SpecPt == Init /\ [][NextPt]_vars

\* C26: process_turn surfaces no unhandled fault for any input text, matcher
\* configuration and reachable conversation state (storage and configuration
\* errors are not modelled): every call returns a result.
C26_NoUnhandledFault ==
    pt.faults = {}

\* ------------------------------------------------------------ TTLCache
\* an entry dropped one second late
Expired_m(now, expiry) == now > expiry + 1

\* datetime.utcnow() > expiry, in get and in cleanup
Expired(now, expiry) == now > expiry

\* TTLCache.__init__(ttl)
TtlCreate(t) ==
    /\ ttl.pc = "idle"
    /\ ttl' = [ttl EXCEPT !.pc = "ready", !.ttl = t]
    /\ UNCHANGED <<coreVars, casc, rt, pt, del, emb, lrn, enr>>

\* TTLCache.set
TtlSet(k, v) ==
    /\ ttl.pc = "ready"
    /\ ttl' = [ttl EXCEPT !.cache[k] = [present |-> TRUE, value |-> v,
                                        expiry |-> ttl.now + ttl.ttl],
                          !.last_set[k] = ttl.now,
                          !.op = "set", !.key = k, !.ret = NoCached, !.removed = {}]
    /\ UNCHANGED <<coreVars, casc, rt, pt, del, emb, lrn, enr>>

\* TTLCache.get
TtlGet(k) ==
    /\ ttl.pc = "ready"
    /\ IF ~ttl.cache[k].present
       THEN ttl' = [ttl EXCEPT !.op = "get", !.key = k, !.ret = NoCached, !.removed = {}]
       ELSE IF Expired(ttl.now, ttl.cache[k].expiry)
            THEN ttl' = [ttl EXCEPT !.cache[k] = NoSlot,
                                    !.op = "get", !.key = k, !.ret = NoCached,
                                    !.removed = {k}]
            ELSE ttl' = [ttl EXCEPT !.op = "get", !.key = k, !.ret = ttl.cache[k].value,
                                    !.removed = {}]
    /\ UNCHANGED <<coreVars, casc, rt, pt, del, emb, lrn, enr>>

\* TTLCache.delete
TtlDelete(k) ==
    /\ ttl.pc = "ready"
    /\ ttl' = [ttl EXCEPT !.cache[k] = NoSlot, !.op = "delete", !.key = k,
                          !.ret = NoCached,
                          !.removed = IF ttl.cache[k].present THEN {k} ELSE {}]
    /\ UNCHANGED <<coreVars, casc, rt, pt, del, emb, lrn, enr>>

\* TTLCache.cleanup
TtlCleanup ==
    /\ ttl.pc = "ready"
    /\ LET expired == {k \in TtlKeys : ttl.cache[k].present
                                       /\ Expired(ttl.now, ttl.cache[k].expiry)}
       IN ttl' = [ttl EXCEPT !.cache = [k \in TtlKeys |-> IF k \in expired THEN NoSlot
                                                         ELSE ttl.cache[k]],
                             !.op = "cleanup", !.ret = NoCached, !.removed = expired]
    /\ UNCHANGED <<coreVars, casc, rt, pt, del, emb, lrn, enr>>

\* a second passes; nothing runs
TtlTick ==
    /\ ttl.pc = "ready"
    /\ ttl.now < MaxClock
    /\ ttl' = [ttl EXCEPT !.now = @ + 1, !.op = "tick", !.ret = NoCached, !.removed = {}]
    /\ UNCHANGED <<coreVars, casc, rt, pt, del, emb, lrn, enr>>

NextTtl ==
    \/ \E t \in TtlChoices : TtlCreate(t)
    \/ \E k \in TtlKeys, v \in TtlValues : TtlSet(k, v)
    \/ \E k \in TtlKeys : TtlGet(k)
    \/ \E k \in TtlKeys : TtlDelete(k)
    \/ TtlCleanup
    \/ TtlTick

SpecTtl == Init /\ [][NextTtl]_vars

\* the expiry time of the last set of key k has passed
ExpiryPassed(k) == ttl.last_set[k] >= 0 /\ ttl.now > ttl.last_set[k] + ttl.ttl

\* C27: get never returns an entry whose expiry time has passed: once the ttl
\* seconds since the last set of a key are over, every get on that key returns
\* nothing until the key is set again; an expired entry stays in the cache
\* until that read or an explicit cleanup() (or delete) removes it, no entry
\* leaves the cache while the clock alone advances.
C27_LazyExpiry ==
    /\ [](\A k \in TtlKeys :
            /\ (ttl.op = "get" /\ ttl.key = k /\ ExpiryPassed(k)) => ttl.ret = NoCached
            /\ (ttl.op = "get" /\ ttl.key = k /\ ttl.ret # NoCached) =>
                    /\ ttl.cache[k].present /\ ttl.ret = ttl.cache[k].value
                    /\ ttl.now <= ttl.cache[k].expiry
            /\ (ExpiryPassed(k) /\ ttl.cache[k].present) =>
                    ttl.cache[k].expiry = ttl.last_set[k] + ttl.ttl)
    /\ [][\A k \in TtlKeys :
            (ttl.cache[k].present /\ ~ttl'.cache[k].present) =>
                /\ ttl'.op \in {"get", "cleanup", "delete"}
                /\ k \in ttl'.removed
                /\ ttl'.op = "get" => ttl'.key = k /\ ExpiryPassed(k)
                /\ ttl'.op = "cleanup" => ExpiryPassed(k)]_vars

\* a get after the expiry time that found the entry still cached, removed it
\* and returned nothing, the clock having advanced past the expiry before
C27_Witness ==
    /\ ttl.op = "get"
    /\ ttl.ret = NoCached
    /\ ttl.key \in ttl.removed
    /\ ttl.ttl > 0
    /\ ttl.now > ttl.last_set[ttl.key] + ttl.ttl + 1

\* ------------------------------------------------- StateManager.delete
\* a store is opened by a StateManager; the library decides on foreign keys
DelOpen(fk) ==
    /\ del.pc = "idle"
    /\ del' = [del EXCEPT !.pc = "ready", !.foreign_keys = fk]
    /\ UNCHANGED <<coreVars, casc, rt, pt, ttl, emb, lrn, enr>>

\* SQLiteStateStorage.load_conversation for an existing conversations row
DelLoad == [present |-> TRUE, turns_history |-> OrderByTurnNum(del.turns),
            extracted_context |-> del.ctx]

\* StateManager.get_or_create: the cached state, else the loaded one, else a
\* created one (a conversations row and an empty state)
DelGetOrCreate ==
    /\ del.pc = "ready"
    /\ LET state == IF del.cache.present THEN del.cache
                    ELSE IF del.conv THEN DelLoad
                    ELSE [present |-> TRUE, turns_history |-> <<>>, extracted_context |-> NoGen]
       IN del' = [del EXCEPT !.conv = TRUE, !.cache = state,
                             !.op = "get_or_create", !.fresh_due = FALSE,
                             !.first = del.fresh_due,
                             !.read = [@ EXCEPT !.turns_history = state.turns_history,
                                                !.extracted_context = state.extracted_context]]
    /\ UNCHANGED <<coreVars, casc, rt, pt, ttl, emb, lrn, enr>>

\* StateManager.update on the cached state (process_turn calls it after
\* get_or_create): add_turn, save_conversation, cache.set
DelUpdate(has_params) ==
    /\ del.pc = "ready"
    /\ del.cache.present
    /\ Len(del.cache.turns_history) < MaxDelTurns
    /\ LET turn == [src |-> del.gen, turn_num |-> Len(del.cache.turns_history) + 1]
           state == [del.cache EXCEPT !.turns_history = Append(@, turn),
                                      !.extracted_context = IF has_params THEN del.gen ELSE @]
       IN del' = [del EXCEPT !.cache = state,
                             !.turns = @ \o SliceFrom(state.turns_history, MaxTurnNum(@)),
                             !.ctx = IF state.extracted_context # NoGen
                                     THEN state.extracted_context ELSE @,
                             !.op = "update"]
    /\ UNCHANGED <<coreVars, casc, rt, pt, ttl, emb, lrn, enr>>

\* SlotManager.fill_slot -> SQLiteStateStorage.save_slot, in a turn (after
\* get_or_create)
DelSaveSlot ==
    /\ del.pc = "ready"
    /\ del.conv
    /\ del' = [del EXCEPT !.slot = del.gen, !.op = "save_slot"]
    /\ UNCHANGED <<coreVars, casc, rt, pt, ttl, emb, lrn, enr>>

\* SQLiteStateStorage.get_slot
DelGetSlot ==
    /\ del.pc = "ready"
    /\ del' = [del EXCEPT !.op = "get_slot", !.read.slot = del.slot]
    /\ UNCHANGED <<coreVars, casc, rt, pt, ttl, emb, lrn, enr>>

\* ON DELETE CASCADE acts only when foreign keys are enforced
CascadeDeletes(fk) == fk

\* StateManager.delete: DELETE FROM conversations WHERE id = ?, cache.delete
DelDelete ==
    /\ del.pc = "ready"
    /\ del.gen < MaxDeletes
    /\ del' = [del EXCEPT !.conv = FALSE,
                          !.turns = IF del.conv /\ CascadeDeletes(del.foreign_keys) THEN <<>> ELSE @,
                          !.ctx = IF del.conv /\ CascadeDeletes(del.foreign_keys) THEN NoGen ELSE @,
                          !.slot = IF del.conv /\ CascadeDeletes(del.foreign_keys) THEN NoGen ELSE @,
                          !.cache = [present |-> FALSE, turns_history |-> <<>>,
                                     extracted_context |-> NoGen],
                          !.gen = @ + 1, !.op = "delete", !.fresh_due = TRUE,
                          !.read = [turns_history |-> <<>>, extracted_context |-> NoGen,
                                    slot |-> NoGen]]
    /\ UNCHANGED <<coreVars, casc, rt, pt, ttl, emb, lrn, enr>>

\* the cache entry expires, or a new StateManager is started on the same store
DelExpireOrRestart ==
    /\ del.pc = "ready"
    /\ del.cache.present
    /\ del' = [del EXCEPT !.cache = [present |-> FALSE, turns_history |-> <<>>,
                                     extracted_context |-> NoGen],
                          !.op = "restart"]
    /\ UNCHANGED <<coreVars, casc, rt, pt, ttl, emb, lrn, enr>>

NextDel ==
    \/ \E fk \in BOOLEAN : DelOpen(fk)
    \/ DelGetOrCreate
    \/ \E has_params \in BOOLEAN : DelUpdate(has_params)
    \/ DelSaveSlot
    \/ DelGetSlot
    \/ DelDelete
    \/ DelExpireOrRestart

SpecDel == Init /\ [][NextDel]_vars

\* C28: after delete(id) the conversation is gone for good: the next
\* get_or_create(id) yields a conversation with zero turns, and no turn,
\* extracted-context entry or slot value written before the delete is returned
\* again, also after the cache entry expired or the manager was restarted.
C28_DeletedForGood ==
    /\ \A i \in 1..Len(del.read.turns_history) : del.read.turns_history[i].src = del.gen
    /\ del.read.extracted_context \in {NoGen, del.gen}
    /\ del.read.slot \in {NoGen, del.gen}
    /\ (del.op = "get_or_create" /\ del.first) => del.read.turns_history = <<>>

\* ------------------------------------------- EmbeddingClient, offline
\* hash(bigram) % vocab_size in a process whose hash seed is seed
HashIndex(bigram, seed) == ((bigram + 1) * (seed + 2) + seed) % VocabSize

\* _offline_embedding: the count of the bigrams hashed to each index; the L2
\* normalisation divides every component by one positive number, the same for
\* the same counts
offline_embedding(text, seed) ==
    [i \in 1..VocabSize |->
        Cardinality({j \in 1..Len(text) : HashIndex(text[j], seed) = i - 1})]

\* a Python process starts: its hash seed and EMBEDDING_CACHE are fixed
EmbStart(p, seed, cache_enabled) ==
    /\ emb.proc[p].seed = NoSeed
    /\ emb' = [emb EXCEPT !.proc[p].seed = seed, !.proc[p].cache_enabled = cache_enabled]
    /\ UNCHANGED <<coreVars, casc, rt, pt, ttl, del, lrn, enr>>

\* embed(text) on a fresh EmbeddingClient without API key, up to the cache
\* lookup: a hit is returned
EmbLookup(p, text) ==
    /\ emb.proc[p].seed # NoSeed
    /\ emb.proc[p].pc = "idle"
    /\ LET cached == IF emb.proc[p].cache_enabled THEN emb.cache[text]
                     ELSE emb.proc[p].own[text]
       IN IF cached # NoVec
          THEN emb' = [emb EXCEPT !.proc[p].text = text, !.proc[p].ret = cached]
          ELSE emb' = [emb EXCEPT !.proc[p].text = text, !.proc[p].ret = NoVec,
                                  !.proc[p].pc = "miss"]
    /\ UNCHANGED <<coreVars, casc, rt, pt, ttl, del, lrn, enr>>

\* after a miss: _offline_embedding, _store_cache (INSERT OR REPLACE), return
EmbCompute(p) ==
    /\ emb.proc[p].pc = "miss"
    /\ LET text == emb.proc[p].text
           vec == offline_embedding(text, emb.proc[p].seed)
       IN emb' = [emb EXCEPT !.proc[p].pc = "idle", !.proc[p].ret = vec,
                             !.proc[p].own[text] = IF emb.proc[p].cache_enabled THEN @ ELSE vec,
                             !.cache[text] = IF emb.proc[p].cache_enabled THEN vec ELSE @,
                             !.computed = @ \cup {[text |-> text, vec |-> vec]},
                             !.written = @ \cup (IF emb.proc[p].cache_enabled
                                                 THEN {[text |-> text, vec |-> vec]} ELSE {})]
    /\ UNCHANGED <<coreVars, casc, rt, pt, ttl, del, lrn, enr>>

NextEmb ==
    \/ \E p \in EmbProcs, seed \in HashSeeds, ce \in BOOLEAN : EmbStart(p, seed, ce)
    \/ \E p \in EmbProcs, text \in EmbTexts : EmbLookup(p, text)
    \/ \E p \in EmbProcs : EmbCompute(p)

SpecEmb == Init /\ [][NextEmb]_vars

\* C29: without credentials embed(t) is the same vector whichever fresh
\* EmbeddingClient computes it, so the writers of the shared cache always write
\* equal values for one key.
C29_OfflineDeterministic ==
    /\ \A a, b \in emb.computed : a.text = b.text => a.vec = b.vec
    /\ \A a, b \in emb.written : a.text = b.text => a.vec = b.vec

\* ---- LearningEngine and ReviewWorkflow: pattern proposals ----

SimilarityThreshold == 80

\* PatternDatabase._text_similarity: Jaccard overlap of the word sets, in
\* hundredths; 0 when either text has no words.
text_similarity(text1, text2) ==
    IF text1 = {} \/ text2 = {} THEN 0
    ELSE (100 * Cardinality(text1 \cap text2)) \div Cardinality(text1 \cup text2)

find_similar_patterns(patterns, pattern_text) ==
    {p \in patterns : text_similarity(pattern_text, p) >= SimilarityThreshold}

\* LearningEngine.get_proposal: index of the first proposal with the id, 0 for None.
get_proposal(proposals, proposal_id) ==
    LET hits == {i \in 1..Len(proposals) : proposals[i].proposal_id = proposal_id}
    IN  IF hits = {} THEN 0 ELSE CHOOSE i \in hits : \A j \in hits : i <= j

PatternProposal(proposal_id, source) ==
    [proposal_id |-> proposal_id, source |-> source,
     status |-> "pending", reviewed_by |-> NoKey]

\* _propose_from_negotiation: the final understanding, unless a known pattern
\* is similar to it.
propose_from_negotiation(patterns, interaction, proposal_id) ==
    IF interaction.final_understanding # {}
       /\ find_similar_patterns(patterns, interaction.final_understanding) = {}
    THEN <<PatternProposal(proposal_id, "negotiation_success")>>
    ELSE <<>>

\* _propose_from_variation: always proposes the user's phrasing.
propose_from_variation(interaction, proposal_id) ==
    <<PatternProposal(proposal_id, "user_variation")>>

\* _check_for_pattern_proposal.
check_for_pattern_proposal(patterns, interaction, id1, id2) ==
    (IF interaction.negotiation_rounds > 0 /\ interaction.final_understanding # {}
     THEN propose_from_negotiation(patterns, interaction, id1) ELSE <<>>)
    \o
    (IF interaction.matched_pattern = {} \/ interaction.low_confidence
     THEN propose_from_variation(interaction, id2) ELSE <<>>)

\* learn_from_interaction(interaction): record the pattern's use, then look
\* for proposals when the outcome is a success.
LrnLearn(interaction, id1, id2) ==
    LET patterns == IF interaction.matched_pattern # {}
                    THEN lrn.patterns \cup {interaction.matched_pattern}
                    ELSE lrn.patterns
        created == IF interaction.outcome = "success"
                   THEN check_for_pattern_proposal(patterns, interaction, id1, id2)
                   ELSE <<>>
    IN  /\ Len(lrn.proposals) + Len(created) <= MaxProposals
        /\ lrn' = [lrn EXCEPT !.patterns = patterns,
                              !.proposals = lrn.proposals \o created,
                              !.last = [op |-> "learn", target |-> 0,
                                        refused |-> FALSE]]
        /\ UNCHANGED <<coreVars, casc, rt, pt, ttl, del, emb, enr>>

CanApprove_m(proposal) == TRUE

\* approve_proposal's safety check: only PENDING proposals can be approved.
CanApprove(proposal) == proposal.status = "pending"

\* approve_proposal(proposal_id, reviewer_id): ValueError when the proposal is
\* not found or not PENDING; otherwise APPROVED, reviewer recorded, deployed.
LrnApprove(proposal_id, reviewer_id) ==
    LET i == get_proposal(lrn.proposals, proposal_id)
    IN  /\ lrn' = IF i = 0 \/ ~CanApprove(lrn.proposals[i])
                  THEN [lrn EXCEPT !.last = [op |-> "approve", target |-> i,
                                             refused |-> TRUE]]
                  ELSE [lrn EXCEPT !.proposals[i].status = "approved",
                                   !.proposals[i].reviewed_by = reviewer_id,
                                   !.deployed = @ \cup {i},
                                   !.last = [op |-> "approve", target |-> i,
                                             refused |-> FALSE]]
        /\ UNCHANGED <<coreVars, casc, rt, pt, ttl, del, emb, enr>>

\* reject_proposal(proposal_id, reviewer_id, reason): ValueError on an empty
\* reason or an unknown id; otherwise REJECTED whatever the status was.
LrnReject(proposal_id, reviewer_id, has_reason) ==
    LET i == IF has_reason THEN get_proposal(lrn.proposals, proposal_id) ELSE 0
    IN  /\ lrn' = IF i = 0
                  THEN [lrn EXCEPT !.last = [op |-> "reject", target |-> i,
                                             refused |-> TRUE]]
                  ELSE [lrn EXCEPT !.proposals[i].status = "rejected",
                                   !.proposals[i].reviewed_by = reviewer_id,
                                   !.last = [op |-> "reject", target |-> i,
                                             refused |-> FALSE]]
        /\ UNCHANGED <<coreVars, casc, rt, pt, ttl, del, emb, enr>>

\* revert_proposal(proposal_id, reviewer_id, reason): ValueError unless the
\* proposal is APPROVED; otherwise REVERTED and undeployed.
LrnRevert(proposal_id) ==
    LET i == get_proposal(lrn.proposals, proposal_id)
    IN  /\ lrn' = IF i = 0 \/ lrn.proposals[i].status # "approved"
                  THEN [lrn EXCEPT !.last = [op |-> "revert", target |-> i,
                                             refused |-> TRUE]]
                  ELSE [lrn EXCEPT !.proposals[i].status = "reverted",
                                   !.deployed = @ \ {i},
                                   !.last = [op |-> "revert", target |-> i,
                                             refused |-> FALSE]]
        /\ UNCHANGED <<coreVars, casc, rt, pt, ttl, del, emb, enr>>

NextLrn ==
    \/ \E interaction \in Interactions, id1, id2 \in ProposalIds :
           LrnLearn(interaction, id1, id2)
    \/ \E proposal_id \in ProposalIds, reviewer_id \in Reviewers :
           LrnApprove(proposal_id, reviewer_id)
    \/ \E proposal_id \in ProposalIds, reviewer_id \in Reviewers,
          has_reason \in BOOLEAN :
           LrnReject(proposal_id, reviewer_id, has_reason)
    \/ \E proposal_id \in ProposalIds : LrnRevert(proposal_id)

SpecLrn == Init /\ [][NextLrn]_vars

C40_RejectOnlyPending ==
    [][ \A i \in 1..Len(lrn.proposals) :
           /\ (lrn'.last = [op |-> "reject", target |-> i, refused |-> FALSE])
                 => lrn.proposals[i].status = "pending"
           /\ (lrn.proposals[i].status = "approved"
               /\ lrn'.proposals[i].status # "approved")
                 => /\ lrn'.last = [op |-> "revert", target |-> i,
                                    refused |-> FALSE]
                    /\ i \notin lrn'.deployed ]_vars

\* ------------------------------------- StateManager.update: completion
\* the steps of coroutine t; asyncio runs every coroutine that is ready
TaskStep(t) ==
    \/ GcLockGranted(t) \/ GcLoad(t) \/ GcCreate(t)
    \/ ProcNoMatch(t) \/ ProcSlotPrompt(t) \/ SlotSave(t) \/ ProcExecute(t)
    \/ UpdLockGranted(t) \/ UpdSave(t)
    \/ (\E q \in BOOLEAN : UpdReturn(t, q)) \/ QSave(t)

SpecFair == Init /\ [][Next]_vars /\ \A t \in Tasks : WF_vars(TaskStep(t))

\* coroutine t is inside StateManager.update (called, not yet returned)
InUpdate(t) ==
    \/ tasks[t].pc \in {"upd_lock", "upd_save", "upd_ret"}
    \/ tasks[t].pc \in {"gc_lock", "gc_load", "gc_create"} /\ tasks[t].caller = "update"

\* C31: every call of StateManager.update eventually completes and releases
\* state_lock, also when the cache entry of the conversation is absent at the
\* moment of the call.
C31_UpdateCompletes ==
    \A t \in Tasks : InUpdate(t) ~> (~InUpdate(t) /\ state_lock.holder # t)

\* C32: every process_turn call that returns a reply has appended exactly one
\* Turn for that call to the conversation's persisted history.
C32_EveryReplyStored ==
    [][ \A t \in Tasks :
           (tasks[t].pc # "idle" /\ tasks'[t].pc = "idle")
              => LET rows == turns'[tasks[t].cid]
                 IN Cardinality({i \in 1..Len(rows) : rows[i].src = tasks[t].sub}) = 1 ]_vars

\* C33: a process_turn call that ends with an error leaves the persisted
\* state of the conversation as it was: the awaiting_response mark, the
\* conversations row and the slots table.
C33_ErrorLeavesStateUntouched ==
    [][ pt'.faults # pt.faults
           => /\ pt'.awaiting_response = pt.awaiting_response
              /\ dlg'.row = dlg.row
              /\ dlg'.slots = dlg.slots ]_vars

\* the marker pair mk is unset, or names a move of the game and a required
\* slot of that move that holds no value
MarkerSound(mk) ==
    /\ (mk.awaiting_slot_for_move = NoMove) <=> (mk.awaiting_slot_name = NoValue)
    /\ mk.awaiting_slot_for_move # NoMove =>
          /\ mk.awaiting_slot_for_move \in MoveIds
          /\ mk.awaiting_slot_name \in SlotNames(mk.awaiting_slot_for_move)
          /\ SlotDef(mk.awaiting_slot_name).required
          /\ dlg.slots[<<mk.awaiting_slot_for_move, mk.awaiting_slot_name>>] = NoValue

\* C34: at the end of every turn awaiting_slot_for_move and awaiting_slot_name
\* are both set or both unset, in the state object and in its stored row, and
\* when set they name a move of the game and a required, unfilled slot of it.
C34_MarkerConsistent ==
    dlg.pc = "idle" => MarkerSound(dlg.state) /\ MarkerSound(dlg.row)

\* C35: when a negotiation for move m succeeds, the score that met the
\* threshold was obtained by a re-match whose best move is m itself.
C35_ScoreOfSameMove ==
    (NegEnded /\ neg.success) => neg.rematch_move = "same"

\* value v meets the type constraint of slot definition def
SlotTypeOK(def, v) ==
    CASE def.type = "range" ->
            /\ NumberIn(v) # NoNumber
            /\ v = NumStr(NumberIn(v))
            /\ def.min <= NumberIn(v) /\ NumberIn(v) <= def.max
      [] def.type = "enum" -> v \in def.enum_values
      [] OTHER -> TRUE

C36_ParamsCoverRequired ==
    AllSlotsFound =>
        \A s \in SlotNames(dlg.result.move_id) :
            SlotDef(s).required => dlg.result.params[s] # NoValue

\* C38: in one turn at most one branch of the move's blocks executes: the
\* actions a completed turn has run are none, or the actions of exactly one
\* block of the move.
C38_SingleBranch ==
    (TurnDone /\ dlg.result.move_id \in MoveIds) =>
        \/ dlg.result.executed = <<>>
        \/ \E i \in 1..Len(Blocks(dlg.result.move_id)) :
               dlg.result.executed = Blocks(dlg.result.move_id)[i].actions

\* ------------------------------------------------ input enrichment: model
\* len(text)
RECURSIVE StrLen(_)
StrLen(text) == IF text = <<>> THEN 0 ELSE Head(text).n + StrLen(Tail(text))

\* text.split(): the lengths of the maximal runs of non-whitespace; cur is the
\* length of the word being read
RECURSIVE split(_, _, _)
split(text, cur, words) ==
    IF text = <<>> THEN (IF cur > 0 THEN Append(words, cur) ELSE words)
    ELSE IF Head(text).ws /\ Head(text).n > 0
         THEN split(Tail(text), 0, IF cur > 0 THEN Append(words, cur) ELSE words)
    ELSE split(Tail(text), cur + Head(text).n, words)

\* " ".join(words)
RECURSIVE join(_)
join(words) ==
    IF words = <<>> THEN <<>>
    ELSE IF Len(words) = 1 THEN <<Word(words[1])>>
    ELSE <<Word(words[1]), Space(1)>> \o join(Tail(words))

\* the for loop of _enrich_input from entry i on: enriched as the loop leaves it
RECURSIVE EnrichLoop(_, _, _, _, _)
EnrichLoop(original, params, i, enriched, appended) ==
    IF i > Len(params) THEN enriched
    ELSE LET val == params[i] IN
         IF val = 0 THEN EnrichLoop(original, params, i + 1, enriched, appended)
         ELSE IF val \in original.mentions \/ val \in appended
              THEN EnrichLoop(original, params, i + 1, enriched, appended)
         ELSE LET longer == enriched \o <<Space(1)>> \o ValText(val) IN
              IF StrLen(longer) > MaxEnrichedLength THEN longer
              ELSE EnrichLoop(original, params, i + 1, longer, appended \cup {val})

\* NegotiationLoop._enrich_input
enrich_input(original, params) ==
    join(split(EnrichLoop(original, params, 1, original.text, {}), 0, <<>>))

\* one call of _enrich_input in a negotiation round
EnrCall ==
    /\ \E original \in Originals, params \in ParamSeqs :
           enr' = [pc |-> "done", original |-> original, params |-> params,
                   ret |-> enrich_input(original, params)]
    /\ UNCHANGED <<coreVars, casc, rt, pt, ttl, del, emb, lrn>>

NextEnr == EnrCall

SpecEnr == Init /\ [][NextEnr]_vars

\* C39: the enriched input rebuilt in a negotiation round never exceeds 2048
\* characters, for every original input and every set of parameter values.
C39_EnrichedWithinCap ==
    enr.pc = "done" => StrLen(enr.ret) <= MaxEnrichedLength

====
